---- MODULE Spec2Model ----
(***************************************************************************)
(* The gcloud emitter of the morph package (GenerateGcloud) and its path   *)
(* template matcher (decomposePathParams, matchPath).                      *)
(*                                                                         *)
(* A Go string is a sequence of one-character strings, so that Split,      *)
(* TrimSuffix, ToLower, ReplaceAll, Join and the byte-wise "<" are         *)
(* computed rather than assumed.  A Go map is a function; a nil map and an *)
(* empty map are both the function with the empty domain (len, range and   *)
(* indexing do not tell them apart).                                       *)
(***************************************************************************)
EXTENDS Integers, Sequences, FiniteSets, TLC

VARIABLES
    in,              \* GcloudInput: ReqData (the request document) and Method
    mapping,         \* gcloudMappingFile once unmarshalled: Command, Properties
    pc,              \* position in the running operation
    propIdx,         \* index of the next entry of mapping.Properties (0-based)
    decomposed,      \* map returned by decomposePathParams
    usedFields,      \* set returned by decomposePathParams
    posMap,          \* posMap of GenerateGcloud: pos -> value
    flags,           \* flags of GenerateGcloud: sequence of gcloudFlag
    injectLeft,      \* keys of decomposed the injection loop has not visited
    positionalArgs,  \* positionalArgs of GenerateGcloud
    script,          \* content of OutDir/gcloud.sh, NoFile while not written
    err,             \* error returned by GenerateGcloud, "nil" while none
    call             \* a direct call of matchPath: its arguments and result

vars == <<in, mapping, pc, propIdx, decomposed, usedFields, posMap, flags,
          injectLeft, positionalArgs, script, err, call>>

-----------------------------------------------------------------------------
(* Bounds of the model. *)

\* longest value, in slash-delimited parts, handed to matchPath directly
MaxParts == 3
\* longest pattern, in tokens, handed to matchPath directly
MaxSegs == 3
\* most bindings of a method under SpecPath
MaxBindings == 2
\* most entries of mapping.Properties under Spec
MaxProps == 2

-----------------------------------------------------------------------------
(* Go strings. *)

\* the characters the model's strings are made of, in ascending byte order
AsciiOrder ==
    << "\n", " ", "!", "\"", "#", "$", "%", "&", "'", "(", ")", "*", "+",
       ",", "-", ".", "/", "0", "1", "2", "3", "4", "5", "6", "7", "8",
       "9", ":", ";", "<", "=", ">", "?", "@", "A", "B", "C", "D", "E",
       "F", "G", "H", "I", "J", "K", "L", "M", "N", "O", "P", "Q", "R",
       "S", "T", "U", "V", "W", "X", "Y", "Z", "[", "\\", "]", "^", "_",
       "a", "b", "c", "d", "e", "f", "g", "h", "i", "j", "k", "l",
       "m", "n", "o", "p", "q", "r", "s", "t", "u", "v", "w", "x", "y",
       "z", "{", "|", "}", "~" >>

\* the position of each character in that order
OrdOf ==
    [c \in {AsciiOrder[i] : i \in 1..Len(AsciiOrder)} |->
        CHOOSE i \in 1..Len(AsciiOrder) : AsciiOrder[i] = c]
Ord(c) == OrdOf[c]

IsUpper(c) == OrdOf["A"] <= Ord(c) /\ Ord(c) <= OrdOf["Z"]
IsLower(c) == OrdOf["a"] <= Ord(c) /\ Ord(c) <= OrdOf["z"]

\* unicode.ToLower and unicode.ToUpper on the characters above
LowerChar(c) == IF IsUpper(c) THEN AsciiOrder[Ord(c) - OrdOf["A"] + OrdOf["a"]] ELSE c
UpperChar(c) == IF IsLower(c) THEN AsciiOrder[Ord(c) - OrdOf["a"] + OrdOf["A"]] ELSE c

ToLower(s) == [i \in 1..Len(s) |-> LowerChar(s[i])]

\* strings.ReplaceAll(s, old, "") for a one-character old
RemoveAll(s, old) == SelectSeq(s, LAMBDA c : c # old)

\* strings.TrimSuffix(s, suffix)
TrimSuffix(s, suffix) ==
    IF Len(s) >= Len(suffix)
       /\ SubSeq(s, Len(s) - Len(suffix) + 1, Len(s)) = suffix
    THEN SubSeq(s, 1, Len(s) - Len(suffix))
    ELSE s

\* strings.Split(s, sep) for a one-character sep: never empty, Split("") = [""]
RECURSIVE Split(_, _)
Split(s, sep) ==
    IF \E i \in 1..Len(s) : s[i] = sep
    THEN LET i == CHOOSE k \in 1..Len(s) :
                      s[k] = sep /\ \A j \in 1..(k - 1) : s[j] # sep
         IN  <<SubSeq(s, 1, i - 1)>> \o Split(SubSeq(s, i + 1, Len(s)), sep)
    ELSE <<s>>

\* strings.Join(items, sep)
RECURSIVE Join(_, _)
Join(items, sep) ==
    IF Len(items) = 0 THEN <<>>
    ELSE IF Len(items) = 1 THEN items[1]
    ELSE items[1] \o sep \o Join(Tail(items), sep)

\* a < b on Go strings: byte-wise lexicographic order
RECURSIVE StrLess(_, _)
StrLess(a, b) ==
    IF Len(b) = 0 THEN FALSE
    ELSE IF Len(a) = 0 THEN TRUE
    ELSE IF a[1] # b[1] THEN Ord(a[1]) < Ord(b[1])
    ELSE StrLess(Tail(a), Tail(b))

\* m[k] = v on a Go map
MapSet(m, k, v) == [x \in (DOMAIN m) \cup {k} |-> IF x = k THEN v ELSE m[x]]

EmptyMap == [x \in {} |-> <<>>]

-----------------------------------------------------------------------------
(* The strings of the model. *)

sEmpty == <<>>
sStar == <<"*">>
sStarStar == <<"*", "*">>
sS == <<"s">>
sSlash == <<"/">>
sProjects == <<"p", "r", "o", "j", "e", "c", "t", "s">>
sProject == <<"p", "r", "o", "j", "e", "c", "t">>
sLocations == <<"l", "o", "c", "a", "t", "i", "o", "n", "s">>
sLocation == <<"l", "o", "c", "a", "t", "i", "o", "n">>
sFolders == <<"f", "o", "l", "d", "e", "r", "s">>
sClass == <<"c", "l", "a", "s", "s">>
sP1 == <<"p", "1">>
sL1 == <<"l", "1">>

-----------------------------------------------------------------------------
(* matchPath. *)

NilCaptured == [nil |-> TRUE, captured |-> EmptyMap]

IsWildcard(seg) == seg = sStar \/ seg = sStarStar

\* mutant: the key is the literal as it stands, not singularized
CaptureKeyPlural(lastLiteral) == lastLiteral

\* the key a wildcard captures under: the last literal, singularized
CaptureKey(lastLiteral) == TrimSuffix(lastLiteral, sS)

\* the loop of matchPath and the check that follows it
RECURSIVE matchLoop(_, _, _, _, _, _)
matchLoop(parts, segments, partIdx, segmentIdx, lastLiteral, captured) ==
    IF partIdx < Len(parts) /\ segmentIdx < Len(segments)
    THEN LET seg == segments[segmentIdx + 1]
             part == parts[partIdx + 1]
         IN  IF IsWildcard(seg)
             THEN matchLoop(parts, segments, partIdx + 1, segmentIdx + 1,
                            lastLiteral,
                            IF lastLiteral # sEmpty
                            THEN MapSet(captured, CaptureKey(lastLiteral), part)
                            ELSE captured)
             ELSE IF part = seg
                  THEN matchLoop(parts, segments, partIdx + 1, segmentIdx + 1,
                                 seg, captured)
                  ELSE NilCaptured
    ELSE IF segmentIdx < Len(segments)
         THEN NilCaptured
         ELSE [nil |-> FALSE, captured |-> captured]

matchPath(value, segments) ==
    matchLoop(Split(value, "/"), segments, 0, 0, sEmpty, EmptyMap)

-----------------------------------------------------------------------------
(* JSON documents and the gjson calls made on them.                        *)
(* A value is a record: type is the gjson type (Null, False, True, Number, *)
(* String, JSON); str is the text of a String and the digits of a Number;  *)
(* kind tells an object from an array; members are an object's key/value   *)
(* pairs and items an array's elements, both in document order.            *)

JNull == [type |-> "Null", str |-> <<>>, kind |-> "", members |-> <<>>, items |-> <<>>]
JTrue == [type |-> "True", str |-> <<>>, kind |-> "", members |-> <<>>, items |-> <<>>]
JString(s) == [type |-> "String", str |-> s, kind |-> "", members |-> <<>>, items |-> <<>>]
JNumber(digits) == [type |-> "Number", str |-> digits, kind |-> "", members |-> <<>>, items |-> <<>>]
JObject(ms) == [type |-> "JSON", str |-> <<>>, kind |-> "object", members |-> ms, items |-> <<>>]
JArray(xs) == [type |-> "JSON", str |-> <<>>, kind |-> "array", members |-> <<>>, items |-> xs]
Member(k, v) == [key |-> k, val |-> v]

Quoted(s) == <<"\"">> \o s \o <<"\"">>

\* the text separating two tokens of the document: one space when the
\* document is written spaced, nothing when it is written compact
Gap(spaced) == IF spaced THEN <<" ">> ELSE <<>>

\* Raw of a gjson.Result: the text of the value as it stands in the document
RECURSIVE Raw(_, _)
RECURSIVE RawMembers(_, _)
RECURSIVE RawItems(_, _)
Raw(v, spaced) ==
    CASE v.type = "Null" -> <<"n", "u", "l", "l">>
      [] v.type = "True" -> <<"t", "r", "u", "e">>
      [] v.type = "False" -> <<"f", "a", "l", "s", "e">>
      [] v.type = "Number" -> v.str
      [] v.type = "String" -> Quoted(v.str)
      [] v.kind = "object" -> <<"{">> \o RawMembers(v.members, spaced) \o <<"}">>
      [] OTHER -> <<"[">> \o RawItems(v.items, spaced) \o <<"]">>
RawMembers(ms, spaced) ==
    IF Len(ms) = 0 THEN <<>>
    ELSE Quoted(ms[1].key) \o <<":">> \o Gap(spaced) \o Raw(ms[1].val, spaced)
         \o (IF Len(ms) = 1 THEN <<>>
             ELSE <<",">> \o Gap(spaced) \o RawMembers(Tail(ms), spaced))
RawItems(xs, spaced) ==
    IF Len(xs) = 0 THEN <<>>
    ELSE Raw(xs[1], spaced)
         \o (IF Len(xs) = 1 THEN <<>>
             ELSE <<",">> \o Gap(spaced) \o RawItems(Tail(xs), spaced))

\* a gjson.Result: whether the path led to a value, the value, and the
\* writing style of the document it was cut from
NoResult == [exists |-> FALSE, val |-> JNull, spaced |-> FALSE]

\* gjson: walk a dot-separated path of object keys; the first member with
\* the key is taken
RECURSIVE GetPath(_, _, _)
GetPath(v, comps, spaced) ==
    IF Len(comps) = 0 THEN [exists |-> TRUE, val |-> v, spaced |-> spaced]
    ELSE IF v.kind # "object" THEN NoResult
    ELSE IF \E i \in 1..Len(v.members) : v.members[i].key = comps[1]
    THEN LET i == CHOOSE k \in 1..Len(v.members) :
                      /\ v.members[k].key = comps[1]
                      /\ \A j \in 1..(k - 1) : v.members[j].key # comps[1]
         IN  GetPath(v.members[i].val, Tail(comps), spaced)
    ELSE NoResult

\* gjson.Get(jsonStr, path) and Result.Get(path)
Get(data, path) == GetPath(data.doc, Split(path, "."), data.spaced)

\* Result.Exists, IsObject, IsArray, String, Raw
Exists(r) == r.exists
IsObject(r) == r.exists /\ r.val.kind = "object"
IsArray(r) == r.exists /\ r.val.kind = "array"
ResultRaw(r) == IF r.exists THEN Raw(r.val, r.spaced) ELSE <<>>
String(r) ==
    CASE ~r.exists -> <<>>
      [] r.val.type = "Null" -> <<>>
      [] r.val.type = "String" -> r.val.str
      [] OTHER -> Raw(r.val, r.spaced)

\* json.Compact: the text without the insignificant whitespace, the
\* characters inside string literals kept
RECURSIVE CompactFrom(_, _)
CompactFrom(text, inString) ==
    IF Len(text) = 0 THEN <<>>
    ELSE IF text[1] = "\"" THEN <<text[1]>> \o CompactFrom(Tail(text), ~inString)
    ELSE IF text[1] = " " /\ ~inString THEN CompactFrom(Tail(text), inString)
    ELSE <<text[1]>> \o CompactFrom(Tail(text), inString)

Compact(text) == CompactFrom(text, FALSE)

-----------------------------------------------------------------------------
(* decomposePathParams. *)

\* api.PathSegment: a literal, or a variable with its field path and pattern
LiteralSegment(lit) ==
    [Literal |-> lit, Variable |-> [nil |-> TRUE, FieldPath |-> <<>>, Segments |-> <<>>]]
VariableSegment(fieldPath, segments) ==
    [Literal |-> <<>>,
     Variable |-> [nil |-> FALSE, FieldPath |-> fieldPath, Segments |-> segments]]
\* api.PathBinding with its PathTemplate
Binding(segments) == [PathTemplate |-> [Segments |-> segments]]
\* api.Method; in.Method may be nil and so may its PathInfo
NilMethod == [nil |-> TRUE, PathInfo |-> [nil |-> TRUE, Bindings |-> <<>>]]
MethodNoPathInfo == [nil |-> FALSE, PathInfo |-> [nil |-> TRUE, Bindings |-> <<>>]]
Method(bindings) == [nil |-> FALSE, PathInfo |-> [nil |-> FALSE, Bindings |-> bindings]]

\* for k, v := range values { decomposed[k] = v }
MapMerge(m, values) ==
    [x \in (DOMAIN m) \cup (DOMAIN values) |->
        IF x \in DOMAIN values THEN values[x] ELSE m[x]]

\* the loop over one binding's segments, from segment i (0-based) on
RECURSIVE segmentLoop(_, _, _, _, _)
segmentLoop(segments, i, data, dec, used) ==
    IF i >= Len(segments)
    THEN [matchFailed |-> FALSE, decomposed |-> dec, usedFields |-> used]
    ELSE LET segment == segments[i + 1] IN
         IF segment.Variable.nil
         THEN segmentLoop(segments, i + 1, data, dec, used)
         ELSE IF Len(segment.Variable.FieldPath) = 0
         THEN segmentLoop(segments, i + 1, data, dec, used)
         ELSE LET fieldPath == segment.Variable.FieldPath[1]
                  used1 == used \cup {fieldPath}
                  result == Get(data, fieldPath)
              IN  IF ~Exists(result)
                  THEN [matchFailed |-> TRUE, decomposed |-> dec, usedFields |-> used1]
                  ELSE LET values == matchPath(String(result), segment.Variable.Segments)
                       IN  IF values.nil
                           THEN [matchFailed |-> TRUE, decomposed |-> dec,
                                 usedFields |-> used1]
                           ELSE segmentLoop(segments, i + 1, data,
                                            MapMerge(dec, values.captured), used1)

\* one binding tried on the request
tryBinding(binding, data) ==
    segmentLoop(binding.PathTemplate.Segments, 0, data, EmptyMap, {})

\* mutant: a candidate with as many captures replaces the best one so far
PreferLastTie(candidate, best) ==
    Cardinality(DOMAIN candidate) >= Cardinality(DOMAIN best)

\* whether a candidate replaces the best one so far
Prefer(candidate, best) ==
    Cardinality(DOMAIN candidate) > Cardinality(DOMAIN best)

\* mutant: a candidate that failed is not skipped
RECURSIVE bindingLoopKeepFailed(_, _, _, _, _)
bindingLoopKeepFailed(bindings, i, data, bestDecomposed, bestUsedFields) ==
    IF i >= Len(bindings)
    THEN [decomposed |-> bestDecomposed, usedFields |-> bestUsedFields]
    ELSE LET r == tryBinding(bindings[i + 1], data) IN
         IF Prefer(r.decomposed, bestDecomposed)
         THEN bindingLoopKeepFailed(bindings, i + 1, data, r.decomposed, r.usedFields)
         ELSE bindingLoopKeepFailed(bindings, i + 1, data, bestDecomposed,
                                    bestUsedFields)

\* the loop over the bindings, from binding i (0-based) on
RECURSIVE bindingLoop(_, _, _, _, _)
bindingLoop(bindings, i, data, bestDecomposed, bestUsedFields) ==
    IF i >= Len(bindings)
    THEN [decomposed |-> bestDecomposed, usedFields |-> bestUsedFields]
    ELSE LET r == tryBinding(bindings[i + 1], data) IN
         IF r.matchFailed
         THEN bindingLoop(bindings, i + 1, data, bestDecomposed, bestUsedFields)
         ELSE IF Prefer(r.decomposed, bestDecomposed)
         THEN bindingLoop(bindings, i + 1, data, r.decomposed, r.usedFields)
         ELSE bindingLoop(bindings, i + 1, data, bestDecomposed, bestUsedFields)

decomposePathParams(input, data) ==
    IF input.Method.nil \/ input.Method.PathInfo.nil
       \/ Len(input.Method.PathInfo.Bindings) = 0
    THEN [decomposed |-> EmptyMap, usedFields |-> {}]
    ELSE bindingLoop(input.Method.PathInfo.Bindings, 0, data, EmptyMap, {})

-----------------------------------------------------------------------------
(* GenerateGcloud: the value of one mapping entry. *)

\* gcloudcmd.FlagMapping; Pos is a pointer, nil for a named flag
NoPos == [nil |-> TRUE, v |-> 0]
Pos(n) == [nil |-> FALSE, v |-> n]
FlagMapping(flag, pos, fieldPath, choices) ==
    [Flag |-> flag, Pos |-> pos, FieldPath |-> fieldPath, Choices |-> choices]

\* mutant: the case is kept
normalizeChoiceKeepCase(s) == RemoveAll(RemoveAll(s, "-"), "_")

normalizeChoice(s) == RemoveAll(RemoveAll(ToLower(s), "-"), "_")

ResultOf(v, spaced) == [exists |-> TRUE, val |-> v, spaced |-> spaced]

\* mutant: an object element is never reduced to its single field
ItemStringWhole(item, spaced) == String(ResultOf(item, spaced))

\* the string one array element contributes
ItemString(item, spaced) ==
    IF item.kind = "object"
    THEN IF Len(item.members) = 1
         THEN String(ResultOf(item.members[1].val, spaced))
         ELSE String(ResultOf(item, spaced))
    ELSE String(ResultOf(item, spaced))

\* value after the array branch
ArrayValue(result) ==
    IF IsArray(result)
    THEN LET items == [i \in 1..Len(result.val.items) |->
                          ItemString(result.val.items[i], result.spaced)]
         IN  IF Len(items) > 0 THEN Join(items, <<",">>) ELSE String(result)
    ELSE String(result)

\* the first declared choice whose normalization is norm; 0 when there is none
FirstChoice(norm, choices) ==
    IF \E i \in 1..Len(choices) : normalizeChoice(choices[i]) = norm
    THEN CHOOSE i \in 1..Len(choices) :
             /\ normalizeChoice(choices[i]) = norm
             /\ \A j \in 1..(i - 1) : normalizeChoice(choices[j]) # norm
    ELSE 0

\* result.ForEach over the keys of an object, stopping at the first key that
\* matches a choice
RECURSIVE keyLoop(_, _, _, _)
keyLoop(members, i, choices, value) ==
    IF i >= Len(members) THEN value
    ELSE LET c == FirstChoice(normalizeChoice(members[i + 1].key), choices)
         IN  IF c # 0 THEN choices[c]
             ELSE keyLoop(members, i + 1, choices, value)

\* value after the choices branch
ChoiceValue(prop, result, value) ==
    IF Len(prop.Choices) > 0
    THEN IF IsObject(result)
         THEN keyLoop(result.val.members, 0, prop.Choices, value)
         ELSE LET c == FirstChoice(normalizeChoice(String(result)), prop.Choices)
              IN  IF c # 0 THEN prop.Choices[c] ELSE value
    ELSE value

\* value after the compaction branch
CompactValue(result, value) ==
    IF (IsObject(result) \/ IsArray(result)) /\ value = String(result)
    THEN Compact(ResultRaw(result))
    ELSE value

\* the value GenerateGcloud resolves for a mapping entry
ResolveValue(prop, data) ==
    LET result == Get(data, prop.FieldPath)
    IN  CompactValue(result, ChoiceValue(prop, result, ArrayValue(result)))

\* whether a resolved value is left out of the flags
SkipValue(value) == value = <<>> \/ value = <<"n", "u", "l", "l">>

gcloudFlag(name, value) == [Name |-> name, Value |-> value, IsLast |-> FALSE]

FlagName(k) == <<"-", "-">> \o k

\* sort.Ints over the keys of posMap, then positionalArgs in that order
RECURSIVE SortedPositions(_)
SortedPositions(S) ==
    IF S = {} THEN <<>>
    ELSE LET least == CHOOSE x \in S : \A y \in S : x <= y
         IN  <<least>> \o SortedPositions(S \ {least})

\* the order sort.Slice puts the flags in
FlagLess(f, g) == StrLess(f.Name, g.Name)

\* mutant: the flags are left in the order they were appended
SortFlagsUnsorted(fs) == fs

\* sort.Slice on fewer than 12 elements: insertion sort, which keeps the
\* order of flags with equal names
RECURSIVE InsertFlag(_, _)
InsertFlag(sorted, f) ==
    IF Len(sorted) = 0 THEN <<f>>
    ELSE IF FlagLess(f, sorted[Len(sorted)])
    THEN Append(InsertFlag(SubSeq(sorted, 1, Len(sorted) - 1), f), sorted[Len(sorted)])
    ELSE Append(sorted, f)
RECURSIVE SortFlags(_)
SortFlags(fs) ==
    IF Len(fs) = 0 THEN <<>>
    ELSE InsertFlag(SortFlags(SubSeq(fs, 1, Len(fs) - 1)), fs[Len(fs)])

\* flags[len(flags)-1].IsLast = true
MarkLast(fs) ==
    IF Len(fs) > 0 THEN [fs EXCEPT ![Len(fs)].IsLast = TRUE] ELSE fs

\* the script the template renders from gcloudData: the command, then one
\* line per positional argument, then one line per flag
Positional(arg) == [kind |-> "positional", Name |-> <<>>, Value |-> arg]
Named(f) == [kind |-> "flag", Name |-> f.Name, Value |-> f.Value]
Render(gd) ==
    [written |-> TRUE, Command |-> gd.Command,
     args |-> [i \in 1..Len(gd.PositionalArgs) |-> Positional(gd.PositionalArgs[i])]
              \o [i \in 1..Len(gd.Flags) |-> Named(gd.Flags[i])]]

-----------------------------------------------------------------------------
(* Inputs. *)

SeqsOfLen(S, lo, hi) == UNION {[1..k -> S] : k \in lo..hi}

\* sequences without repetition
IsInjective(q) == \A i, j \in 1..Len(q) : q[i] = q[j] => i = j

sDot == <<".">>
sParent == <<"p", "a", "r", "e", "n", "t">>
sName == <<"n", "a", "m", "e">>
sSecret == <<"s", "e", "c", "r", "e", "t">>
sSecretId == <<"s", "e", "c", "r", "e", "t", "I", "d">>
sSecrets == <<"s", "e", "c", "r", "e", "t", "s">>
sMySecret == <<"m", "y", "-", "s", "e", "c", "r", "e", "t">>

Path(parts) == Join(parts, sSlash)

\* a request document: its top-level members and its writing style
Document(members, spaced) == [doc |-> JObject(members), spaced |-> spaced]

\* the patterns and values a direct call of matchPath is tried on
MatchTokens == {sProjects, sClass, sStar, sStarStar}
MatchParts == {sProjects, sClass, sP1, sEmpty}

\* the bindings the methods under SpecPath are made of
bProjects ==
    Binding(<<LiteralSegment(sProjects),
              VariableSegment(<<sParent>>, <<sProjects, sStar>>)>>)
bProjectsLocations ==
    Binding(<<LiteralSegment(sProjects),
              VariableSegment(<<sParent>>, <<sProjects, sStar, sLocations, sStar>>)>>)
bFolders ==
    Binding(<<VariableSegment(<<sParent>>, <<sFolders, sStarStar>>)>>)
bNameLocations ==
    Binding(<<VariableSegment(<<sName>>, <<sLocations, sStar>>)>>)
bSecretName ==
    Binding(<<VariableSegment(<<sSecret, sName>>, <<sProjects, sStar>>)>>)
bParentAndSecret ==
    Binding(<<VariableSegment(<<sParent>>, <<sProjects, sStar>>),
              LiteralSegment(sSecrets),
              VariableSegment(<<sSecretId>>, <<sStar>>)>>)
bParentAndName ==
    Binding(<<VariableSegment(<<sParent>>, <<sProjects, sStar>>),
              VariableSegment(<<sName>>, <<sLocations, sStar>>)>>)
bLiteralOnly ==
    Binding(<<LiteralSegment(sProjects), LiteralSegment(sSecrets)>>)
bNoFieldPath ==
    Binding(<<VariableSegment(<<>>, <<sProjects, sStar>>),
              VariableSegment(<<sName>>, <<sLocations, sStar>>)>>)

\* secrets/{secretId=*}: the pattern starts with a wildcard
bSecretId ==
    Binding(<<LiteralSegment(sSecrets), VariableSegment(<<sSecretId>>, <<sStar>>)>>)

PathBindings ==
    {bProjects, bProjectsLocations, bFolders, bNameLocations, bSecretName,
     bParentAndSecret, bLiteralOnly, bNoFieldPath, bSecretId}

\* the values of the request's parent field under SpecPath; <<>> is no field
ParentMembers ==
    {<<>>,
     <<Member(sParent, JNull)>>,
     <<Member(sParent, JString(sProjects))>>,
     <<Member(sParent, JString(Path(<<sProjects, sEmpty>>)))>>,
     <<Member(sParent, JString(Path(<<sProjects, sP1>>)))>>,
     <<Member(sParent, JString(Path(<<sProjects, sP1, sLocations, sL1>>)))>>,
     <<Member(sParent, JString(Path(<<sFolders, sP1, sL1>>)))>>}
NameMembers ==
    {<<>>, <<Member(sName, JString(Path(<<sLocations, sL1>>)))>>}
SecretIdMembers ==
    {<<>>, <<Member(sSecretId, JString(sMySecret))>>}
SecretMember ==
    Member(sSecret, JObject(<<Member(sName, JString(Path(<<sProjects, sP1>>)))>>))

PathRequests ==
    {Document(p \o n \o i \o <<SecretMember>>, TRUE) :
        p \in ParentMembers, n \in NameMembers, i \in SecretIdMembers}

PathMethods ==
    {NilMethod, MethodNoPathInfo}
    \cup {Method(bs) : bs \in SeqsOfLen(PathBindings, 0, MaxBindings)}

NoMapping == [Command |-> <<>>, Properties |-> <<>>]

\* the request GenerateGcloud is run on, but for its parent field
sLabels == <<"l", "a", "b", "e", "l", "s">>
sEnv == <<"e", "n", "v">>
sProd == <<"p", "r", "o", "d">>
sReplication == <<"r", "e", "p", "l", "i", "c", "a", "t", "i", "o", "n">>
sPolicy == <<"p", "o", "l", "i", "c", "y">>
sUserManagedKey == <<"u", "s", "e", "r", "M", "a", "n", "a", "g", "e", "d">>
sUserManaged == <<"u", "s", "e", "r", "-", "m", "a", "n", "a", "g", "e", "d">>
sAutomatic == <<"a", "u", "t", "o", "m", "a", "t", "i", "c">>
sAutomaticCap == <<"A", "u", "t", "o", "m", "a", "t", "i", "c">>
sTopics == <<"t", "o", "p", "i", "c", "s">>
sT1 == <<"t", "1">>
sT2 == <<"t", "2">>
sMode == <<"m", "o", "d", "e">>
sPresent == <<"p", "r", "e", "s", "e", "n", "t">>
sHere == <<"h", "e", "r", "e">>
sEmptyField == <<"e", "m", "p", "t", "y">>
sNullVal == <<"n", "u", "l", "l", "_", "v", "a", "l">>
sNull == <<"n", "u", "l", "l">>
sWord == <<"w", "o", "r", "d">>
sMissing == <<"m", "i", "s", "s", "i", "n", "g">>
sDash == <<"-">>
sInput == <<"i", "n", "p", "u", "t">>
sTags == <<"t", "a", "g", "s">>
sGcloud == <<"g", "c", "l", "o", "u", "d">>

GcloudSecret ==
    JObject(<<Member(sLabels, JObject(<<Member(sEnv, JString(sProd))>>)),
              Member(sReplication, JObject(<<Member(sUserManagedKey, JObject(<<>>))>>)),
              Member(sPolicy, JObject(<<Member(sUserManaged, JObject(<<>>))>>)),
              Member(sTopics, JArray(<<JString(sT1),
                                       JObject(<<Member(sName, JString(sT2))>>)>>)),
              Member(sTags, JArray(<<>>))>>)

GcloudRequest(parent) ==
    Document(parent
             \o <<Member(sSecretId, JString(sMySecret)),
                  Member(sSecret, GcloudSecret),
                  Member(sMode, JString(sAutomaticCap)),
                  Member(sPresent, JString(sHere)),
                  Member(sEmptyField, JString(sEmpty)),
                  Member(sNullVal, JNull),
                  Member(sWord, JString(sNull))>>,
             TRUE)

ParentOf(parts) == <<Member(sParent, JString(Path(parts)))>>

\* the methods and parent values GenerateGcloud is run on
GcloudCases ==
    {[Method |-> NilMethod, parent |-> ParentOf(<<sProjects, sP1, sLocations, sL1>>)],
     [Method |-> Method(<<>>), parent |-> ParentOf(<<sProjects, sP1>>)],
     [Method |-> Method(<<bProjects, bProjectsLocations>>),
      parent |-> ParentOf(<<sProjects, sP1, sLocations, sL1>>)],
     [Method |-> Method(<<bProjects>>), parent |-> ParentOf(<<sProjects, sP1>>)],
     [Method |-> Method(<<bProjects>>), parent |-> ParentOf(<<sProjects, sEmpty>>)],
     [Method |-> Method(<<bProjects>>), parent |-> <<>>],
     [Method |-> Method(<<bProjectsLocations>>), parent |-> ParentOf(<<sProjects, sP1>>)],
     [Method |-> Method(<<bParentAndName>>), parent |-> ParentOf(<<sProjects, sP1>>)],
     [Method |-> Method(<<bLiteralOnly>>), parent |-> ParentOf(<<sProjects, sP1>>)]}

Choices == <<sAutomatic, sUserManaged>>

\* the entries mapping files are made of
PropPool ==
    {FlagMapping(<<>>, Pos(0), sSecretId, <<>>),
     FlagMapping(<<>>, Pos(1), sMissing, <<>>),
     FlagMapping(<<>>, Pos(0), sEmptyField, <<>>),
     FlagMapping(FlagName(sLabels), NoPos, sSecret \o sDot \o sLabels, <<>>),
     FlagMapping(FlagName(sLocation), NoPos, sParent, <<>>),
     FlagMapping(FlagName(sProject), NoPos, sPresent, <<>>),
     FlagMapping(FlagName(sEmptyField), NoPos, sEmptyField, <<>>),
     FlagMapping(FlagName(sNull), NoPos, sNullVal, <<>>),
     FlagMapping(FlagName(sMissing), NoPos, sMissing, <<>>),
     FlagMapping(FlagName(sWord), NoPos, sWord, <<>>),
     FlagMapping(FlagName(sPolicy), NoPos, sSecret \o sDot \o sReplication, Choices),
     FlagMapping(FlagName(sPolicy), NoPos, sSecret \o sDot \o sPolicy, Choices),
     FlagMapping(FlagName(sMode), NoPos, sMode, Choices),
     FlagMapping(FlagName(sInput), NoPos, sMissing, <<sDash>>),
     FlagMapping(FlagName(sTopics), NoPos, sSecret \o sDot \o sTopics, <<>>),
     FlagMapping(FlagName(sTopics), NoPos, sSecret \o sDot \o sTopics, Choices),
     FlagMapping(FlagName(sTags), NoPos, sSecret \o sDot \o sTags, Choices),
     FlagMapping(FlagName(sLabels), NoPos, sSecret \o sDot \o sLabels, Choices),
     FlagMapping(FlagName(sPresent), NoPos, sPresent, Choices),
     FlagMapping(<<>>, NoPos, sPresent, <<>>)}

MappingFiles ==
    {[readable |-> FALSE, wellFormed |-> FALSE, content |-> NoMapping],
     [readable |-> TRUE, wellFormed |-> FALSE, content |-> NoMapping]}
    \cup {[readable |-> TRUE, wellFormed |-> TRUE,
           content |-> [Command |-> sGcloud, Properties |-> props]] :
            props \in {q \in SeqsOfLen(PropPool, 0, MaxProps) : IsInjective(q)}}


-----------------------------------------------------------------------------
(* The state before anything runs. *)

NoFile == [written |-> FALSE, Command |-> <<>>, args |-> <<>>]
NoCall == [op |-> "none", value |-> <<>>, segments |-> <<>>, ret |-> NilCaptured]
\* the mapping file on disk: whether it can be read, whether it is JSON of
\* the expected shape, and what it unmarshals to
NoMappingFile == [readable |-> FALSE, wellFormed |-> FALSE, content |-> NoMapping]
NoInput ==
    [ReqData |-> Document(<<>>, FALSE), Method |-> NilMethod,
     MappingFile |-> NoMappingFile]

Blank ==
    /\ mapping = NoMapping
    /\ propIdx = 0
    /\ decomposed = EmptyMap
    /\ usedFields = {}
    /\ posMap = EmptyMap
    /\ flags = <<>>
    /\ injectLeft = {}
    /\ positionalArgs = <<>>
    /\ script = NoFile
    /\ err = "nil"

-----------------------------------------------------------------------------
(* matchPath called directly. *)

InitMatch ==
    /\ Blank
    /\ in = NoInput
    /\ pc = "match"
    /\ call \in {[op |-> "matchPath", value |-> Path(parts), segments |-> segs,
                  ret |-> NilCaptured] :
                    parts \in SeqsOfLen(MatchParts, 1, MaxParts),
                    segs \in SeqsOfLen(MatchTokens, 0, MaxSegs)}

MatchCall ==
    /\ pc = "match"
    /\ call' = [call EXCEPT !.ret = matchPath(call.value, call.segments)]
    /\ pc' = "matched"
    /\ UNCHANGED <<in, mapping, propIdx, decomposed, usedFields, posMap, flags,
                   injectLeft, positionalArgs, script, err>>

NextMatch == MatchCall

SpecMatch == InitMatch /\ [][NextMatch]_vars

-----------------------------------------------------------------------------
(* decomposePathParams called directly. *)

InitPath ==
    /\ Blank
    /\ call = NoCall
    /\ pc = "path"
    /\ in \in {[ReqData |-> d, Method |-> m, MappingFile |-> NoMappingFile] :
                  d \in PathRequests, m \in PathMethods}

PathCall ==
    /\ pc = "path"
    /\ LET r == decomposePathParams(in, in.ReqData)
       IN  /\ decomposed' = r.decomposed
           /\ usedFields' = r.usedFields
    /\ pc' = "pathDone"
    /\ UNCHANGED <<in, mapping, propIdx, posMap, flags, injectLeft,
                   positionalArgs, script, err, call>>

NextPath == PathCall

SpecPath == InitPath /\ [][NextPath]_vars

-----------------------------------------------------------------------------
(* GenerateGcloud. *)

Init ==
    /\ Blank
    /\ call = NoCall
    /\ pc = "read"
    /\ in \in {[ReqData |-> GcloudRequest(c.parent), Method |-> c.Method,
                MappingFile |-> f] : c \in GcloudCases, f \in MappingFiles}

Properties == mapping.Properties

\* where the loop over mapping.Properties goes after entry number idx
AfterProp(idx, props, dec) ==
    IF idx < Len(props) THEN "props"
    ELSE IF DOMAIN dec # {} THEN "inject"
    ELSE "finish"

\* os.ReadFile and json.Unmarshal of the mapping file, then
\* decomposePathParams
ReadMapping ==
    /\ pc = "read"
    /\ IF ~in.MappingFile.readable
       THEN /\ err' = "failed to read mapping file"
            /\ pc' = "done"
            /\ UNCHANGED <<mapping, decomposed, usedFields, injectLeft>>
       ELSE IF ~in.MappingFile.wellFormed
       THEN /\ err' = "failed to unmarshal mapping file"
            /\ pc' = "done"
            /\ UNCHANGED <<mapping, decomposed, usedFields, injectLeft>>
       ELSE LET r == decomposePathParams(in, in.ReqData)
            IN  /\ mapping' = in.MappingFile.content
                /\ decomposed' = r.decomposed
                /\ usedFields' = r.usedFields
                /\ injectLeft' = DOMAIN r.decomposed
                /\ pc' = AfterProp(0, in.MappingFile.content.Properties, r.decomposed)
                /\ err' = err
    /\ UNCHANGED <<in, propIdx, posMap, flags, positionalArgs, script, call>>

\* mutant: a mapping of a consumed field is processed like any other
ApplyPropUnfiltered(prop, data, used, pm, fs) ==
    LET value == ResolveValue(prop, data)
    IN  IF ~prop.Pos.nil
        THEN [posMap |-> MapSet(pm, prop.Pos.v, value), flags |-> fs]
        ELSE IF prop.Flag # <<>>
        THEN IF SkipValue(value)
             THEN [posMap |-> pm, flags |-> fs]
             ELSE [posMap |-> pm, flags |-> Append(fs, gcloudFlag(prop.Flag, value))]
        ELSE [posMap |-> pm, flags |-> fs]

\* what one entry of mapping.Properties does to posMap and flags
ApplyProp(prop, data, used, pm, fs) ==
    IF prop.FieldPath \in used
    THEN [posMap |-> pm, flags |-> fs]
    ELSE LET value == ResolveValue(prop, data)
         IN  IF ~prop.Pos.nil
             THEN [posMap |-> MapSet(pm, prop.Pos.v, value), flags |-> fs]
             ELSE IF prop.Flag # <<>>
             THEN IF SkipValue(value)
                  THEN [posMap |-> pm, flags |-> fs]
                  ELSE [posMap |-> pm,
                        flags |-> Append(fs, gcloudFlag(prop.Flag, value))]
             ELSE [posMap |-> pm, flags |-> fs]

\* one iteration of the loop over mapping.Properties
ProcessProp ==
    /\ pc = "props"
    /\ propIdx < Len(Properties)
    /\ LET r == ApplyProp(Properties[propIdx + 1], in.ReqData, usedFields,
                          posMap, flags)
       IN  /\ posMap' = r.posMap
           /\ flags' = r.flags
    /\ propIdx' = propIdx + 1
    /\ pc' = AfterProp(propIdx + 1, Properties, decomposed)
    /\ UNCHANGED <<in, mapping, decomposed, usedFields, injectLeft,
                   positionalArgs, script, err, call>>

\* mutant: the flag is added whether or not one of its name exists
InjectFlagAlways(k, v, fs) ==
    IF v = <<>> THEN fs ELSE Append(fs, gcloudFlag(FlagName(k), v))

\* what the injection loop does to flags for one key of decomposed
InjectFlag(k, v, fs) ==
    IF v = <<>> THEN fs
    ELSE IF \E i \in 1..Len(fs) : fs[i].Name = FlagName(k)
    THEN fs
    ELSE Append(fs, gcloudFlag(FlagName(k), v))

\* one iteration of the loop over decomposed; a Go map is ranged over in
\* no fixed order
InjectDecomposed ==
    /\ pc = "inject"
    /\ \E k \in injectLeft :
          /\ flags' = InjectFlag(k, decomposed[k], flags)
          /\ injectLeft' = injectLeft \ {k}
          /\ pc' = IF injectLeft = {k} THEN "finish" ELSE "inject"
    /\ UNCHANGED <<in, mapping, propIdx, decomposed, usedFields, posMap,
                   positionalArgs, script, err, call>>

\* the positional arguments in order of position
PositionalArgs(pm) ==
    LET positions == SortedPositions(DOMAIN pm)
    IN  [i \in 1..Len(positions) |-> pm[positions[i]]]

\* the rest of GenerateGcloud: order the arguments, render, write the file;
\* creating the directory or writing the file may fail
Finish ==
    /\ pc = "finish"
    /\ positionalArgs' = PositionalArgs(posMap)
    /\ flags' = MarkLast(SortFlags(flags))
    /\ \/ /\ err' = "failed to create output directory"
          /\ script' = script
       \/ /\ err' = "failed to write output file"
          /\ script' = script
       \/ /\ err' = err
          /\ script' = Render([Command |-> mapping.Command,
                               PositionalArgs |-> positionalArgs',
                               Flags |-> flags'])
    /\ pc' = "done"
    /\ UNCHANGED <<in, mapping, propIdx, decomposed, usedFields, posMap,
                   injectLeft, call>>

Next == ReadMapping \/ ProcessProp \/ InjectDecomposed \/ Finish

Spec == Init /\ [][Next]_vars

-----------------------------------------------------------------------------
(* GenerateGcloud run on requests whose mapped field is an array. *)

\* the longest array
MaxItems == 2

\* the elements arrays are made of
ArrayItems ==
    {JString(sT1), JString(sEmpty), JNull, JTrue, JNumber(<<"1">>),
     JObject(<<>>),
     JObject(<<Member(sName, JString(sT2))>>),
     JObject(<<Member(sName, JObject(<<Member(sEnv, JString(sProd))>>))>>),
     JObject(<<Member(sName, JString(sT2)), Member(sEnv, JString(sProd))>>),
     JArray(<<JString(sT1)>>)}

ArrayRequests ==
    {Document(ParentOf(<<sProjects, sP1>>) \o <<Member(sTopics, JArray(items))>>,
              spaced) :
        items \in SeqsOfLen(ArrayItems, 1, MaxItems), spaced \in BOOLEAN}

ArrayProps ==
    {FlagMapping(FlagName(sTopics), NoPos, sTopics, <<>>),
     FlagMapping(FlagName(sTopics), NoPos, sTopics, Choices),
     FlagMapping(<<>>, Pos(0), sTopics, <<>>)}

InitArray ==
    /\ Blank
    /\ call = NoCall
    /\ pc = "read"
    /\ in \in {[ReqData |-> d, Method |-> Method(<<bProjects>>),
                MappingFile |-> [readable |-> TRUE, wellFormed |-> TRUE,
                                 content |-> [Command |-> sGcloud,
                                              Properties |-> <<prop>>]]] :
                  d \in ArrayRequests, prop \in ArrayProps}

SpecArray == InitArray /\ [][Next]_vars

-----------------------------------------------------------------------------
(* Claims about the path template matcher. *)

Bindings == in.Method.PathInfo.Bindings

\* what decomposePathParams extracts from candidate i alone
Candidate(i) == tryBinding(Bindings[i], in.ReqData)
Matching == {i \in 1..Len(Bindings) : ~Candidate(i).matchFailed}
Captures(i) == Cardinality(DOMAIN Candidate(i).decomposed)

\* the first declared among the matching candidates with the most captures
Selected ==
    CHOOSE i \in Matching :
        /\ \A j \in Matching : Captures(j) <= Captures(i)
        /\ \A j \in Matching : Captures(j) = Captures(i) => i <= j

ProjectLocationMap == (sProject :> sP1) @@ (sLocation :> sL1)

ParentIs(v) == Get(in.ReqData, sParent) = [exists |-> TRUE, val |-> JString(v), spaced |-> in.ReqData.spaced]

\* C1: the map decomposePathParams returns is the one extracted by the
\* matching binding with the most captured variables, the first declared
\* among those with the most; projects/* and projects/*/locations/*, in
\* either order, on parent = projects/p1/locations/l1 give
\* {project: p1, location: l1}.
C1_BestBindingSelected ==
    pc = "pathDone" =>
        /\ (Matching # {} => decomposed = Candidate(Selected).decomposed)
        /\ (/\ ParentIs(Path(<<sProjects, sP1, sLocations, sL1>>))
            /\ Bindings \in {<<bProjects, bProjectsLocations>>,
                             <<bProjectsLocations, bProjects>>}
            => decomposed = ProjectLocationMap)

\* C1 witness: two candidates tie on one capture each and the first declared
\* one is returned, not the second
C1_Witness ==
    /\ pc = "pathDone"
    /\ Bindings = <<bNameLocations, bProjects>>
    /\ Matching = {1, 2}
    /\ Candidate(1).decomposed # Candidate(2).decomposed
    /\ decomposed = (sLocation :> sL1)

\* the value the request holds at a variable's field path
ValueAt(variable) == Get(in.ReqData, Join(variable.FieldPath, sDot))
PartsAt(variable) == Split(String(ValueAt(variable)), "/")

\* the three ways a variable segment makes its candidate fail, as claimed
FailsAsClaimed(variable) ==
    \/ ~Exists(ValueAt(variable))
    \/ \E k \in 1..Len(variable.Segments) :
          /\ k <= Len(PartsAt(variable))
          /\ ~IsWildcard(variable.Segments[k])
          /\ variable.Segments[k] # PartsAt(variable)[k]
    \/ Len(PartsAt(variable)) < Len(variable.Segments)

ReferencedVariables(binding) ==
    {binding.PathTemplate.Segments[k].Variable :
        k \in {n \in 1..Len(binding.PathTemplate.Segments) :
                  /\ ~binding.PathTemplate.Segments[n].Variable.nil
                  /\ Len(binding.PathTemplate.Segments[n].Variable.FieldPath) > 0}}

\* C2: a candidate is excluded exactly when, for one of its variable
\* segments, the request has no value at the variable's field path, or a
\* literal token differs from the value's part at the same position, or the
\* value has fewer parts than the pattern has tokens.
C2_ExcludedIffClaimed ==
    pc = "pathDone" =>
        \A i \in 1..Len(Bindings) :
            Candidate(i).matchFailed
                <=> \E variable \in ReferencedVariables(Bindings[i]) :
                        FailsAsClaimed(variable)

\* positions (1-based) of the pattern's wildcards, and of the literals
Wildcards(segments) == {k \in 1..Len(segments) : IsWildcard(segments[k])}
Literals(segments) == {k \in 1..Len(segments) : ~IsWildcard(segments[k])}
HasLiteralBefore(segments, k) == \E j \in Literals(segments) : j < k
LastLiteralBefore(segments, k) ==
    segments[CHOOSE j \in Literals(segments) :
                 j < k /\ \A n \in Literals(segments) : n < k => n <= j]
\* a literal with a single trailing "s" removed
Singular(literal) ==
    IF Len(literal) > 0 /\ literal[Len(literal)] = "s"
    THEN SubSeq(literal, 1, Len(literal) - 1)
    ELSE literal
KeyOf(segments, k) == Singular(LastLiteralBefore(segments, k))
CallParts == Split(call.value, "/")
Matched == pc = "matched" /\ ~call.ret.nil

\* C3 as stated: every wildcard token captures the part at its position
\* under the singularized most recent preceding literal; nothing else is
\* captured; no more keys than wildcards.
C3_EveryWildcardCaptured ==
    Matched =>
        /\ \A k \in Wildcards(call.segments) :
              /\ HasLiteralBefore(call.segments, k)
              /\ KeyOf(call.segments, k) \in DOMAIN call.ret.captured
              /\ call.ret.captured[KeyOf(call.segments, k)] = CallParts[k]
        /\ Cardinality(DOMAIN call.ret.captured)
              <= Cardinality(Wildcards(call.segments))

\* the wildcards that capture: those with a literal before them
Capturing(segments) ==
    {k \in Wildcards(segments) : HasLiteralBefore(segments, k)}

\* C3 as amended: on a match, the captured keys are the singularized most
\* recent preceding literals of the wildcards that have one; the value under
\* a key is the part at the position of the last wildcard with that key; a
\* wildcard with no literal before it captures nothing; literal tokens are
\* not captured and there are no more keys than wildcards.
C3_WildcardsCaptureLastWins ==
    Matched =>
        LET captured == call.ret.captured
            W == Capturing(call.segments)
        IN  /\ DOMAIN captured = {KeyOf(call.segments, k) : k \in W}
            /\ \A key \in DOMAIN captured :
                  LET last == CHOOSE k \in W :
                                 /\ KeyOf(call.segments, k) = key
                                 /\ \A n \in W :
                                       KeyOf(call.segments, n) = key => n <= k
                  IN  captured[key] = CallParts[last]
            /\ Cardinality(DOMAIN captured) <= Cardinality(Wildcards(call.segments))

\* C3 witness: two wildcards share the key "project" and the later part
\* stays; the literal "class" of another pattern loses one "s" only
C3_Witness ==
    /\ Matched
    /\ call.segments = <<sProjects, sStar, sStarStar>>
    /\ call.value = Path(<<sProjects, sP1, sClass>>)
    /\ call.ret.captured = (sProject :> sClass)

-----------------------------------------------------------------------------
(* Claims about GenerateGcloud. *)

MappingLoaded == in.MappingFile.readable /\ in.MappingFile.wellFormed
OutputErrors == {"failed to create output directory", "failed to write output file"}

\* the entry of mapping.Properties the loop is at
CurrentProp == Properties[propIdx + 1]
AtProp == pc = "props" /\ propIdx < Len(Properties)
LastFlag(fs) == fs[Len(fs)]

\* posMap and flags after entries 1..n when the fields in used are consumed
RECURSIVE FromProps(_, _, _)
FromProps(props, n, used) ==
    IF n = 0 THEN [posMap |-> EmptyMap, flags |-> <<>>]
    ELSE LET before == FromProps(props, n - 1, used)
         IN  ApplyProp(props[n], in.ReqData, used, before.posMap, before.flags)

\* posMap and flags after entries 1..n, had nothing been decomposed
FromRequestAlone(props, n) == FromProps(props, n, {})

NoCandidateMatches ==
    in.Method.nil \/ in.Method.PathInfo.nil \/ Matching = {}

\* C4: when no candidate binding matches (or there are no bindings) the
\* decomposition is empty, no error comes of it, every mapping is processed
\* from the request alone and the script is written.
C4_NoMatchIsNotAnError ==
    pc = "done" /\ MappingLoaded /\ NoCandidateMatches =>
        /\ decomposed = EmptyMap
        /\ usedFields = {}
        /\ err \in {"nil"} \cup OutputErrors
        /\ LET alone == FromRequestAlone(Properties, Len(Properties))
           IN  /\ posMap = alone.posMap
               /\ flags = MarkLast(SortFlags(alone.flags))
        /\ err = "nil" => script.written

\* C4 witness: the only binding fails after its first variable captured
\* project, and the mapping of parent still yields --location
C4_Witness ==
    /\ pc = "done"
    /\ err = "nil"
    /\ script.written
    /\ Len(Bindings) = 1
    /\ Matching = {}
    /\ Candidate(1).usedFields # {}
    /\ \E i \in 1..Len(flags) : flags[i].Name = FlagName(sLocation)

\* C5: a mapping whose field_path is among the fields the selected binding
\* consumed yields neither a flag nor a positional argument; every other
\* mapping is processed.
C5_ConsumedMappingDropped ==
    [][AtProp =>
          IF CurrentProp.FieldPath \in usedFields
          THEN flags' = flags /\ posMap' = posMap
          ELSE LET value == ResolveValue(CurrentProp, in.ReqData)
               IN  /\ ~CurrentProp.Pos.nil =>
                          /\ CurrentProp.Pos.v \in DOMAIN posMap'
                          /\ posMap'[CurrentProp.Pos.v] = value
                   /\ (CurrentProp.Pos.nil /\ CurrentProp.Flag # <<>>
                       /\ ~SkipValue(value)) =>
                          /\ Len(flags') = Len(flags) + 1
                          /\ LastFlag(flags').Name = CurrentProp.Flag]_vars

\* C5 witness: the mapping --location -> parent has just been passed over,
\* parent being in the request and consumed by the selected binding
C5_Witness ==
    /\ pc \in {"props", "inject"}
    /\ propIdx = 1
    /\ Properties[1] = FlagMapping(FlagName(sLocation), NoPos, sParent, <<>>)
    /\ sParent \in usedFields
    /\ Exists(Get(in.ReqData, sParent))
    /\ flags = <<>>
    /\ posMap = EmptyMap

\* the positions of posMap below p
Below(p) == {q \in DOMAIN posMap : q < p}
NumPositional == Cardinality(DOMAIN posMap)

FieldBlank(prop) ==
    LET r == Get(in.ReqData, prop.FieldPath)
    IN  \/ ~Exists(r)
        \/ r.val.type = "Null"
        \/ r.val.type = "String" /\ r.val.str = <<>>

\* C7: no flag with an empty value is ever emitted, and a mapping whose
\* field is absent, empty or null contributes no flag.
C7_BlankFieldYieldsNoFlag ==
    [][/\ \A i \in 1..Len(flags') : flags'[i].Value # <<>>
       /\ AtProp /\ FieldBlank(CurrentProp) => flags' = flags]_vars

\* C8: a positional mapping whose field is absent, empty or null contributes
\* no positional argument, so no positional argument is the empty string.
C8_BlankPositionalOmitted ==
    pc = "done" => \A i \in 1..Len(positionalArgs) : positionalArgs[i] # <<>>

\* the values, in order, of the flags named name
ValuesNamed(fs, name) ==
    LET named == SelectSeq(fs, LAMBDA f : f.Name = name)
    IN  [i \in 1..Len(named) |-> named[i].Value]

\* the flags the explicit mappings produced
ExplicitFlags == FromProps(Properties, Len(Properties), usedFields).flags

\* C9: for every captured variable k with a non-empty value v, --k with
\* value v is emitted exactly once when no explicit mapping produced --k,
\* and when one did no --k is added and the explicit values stay.
C9_DecomposedFlagOnce ==
    pc = "done" /\ MappingLoaded =>
        \A k \in DOMAIN decomposed :
            decomposed[k] # <<>> =>
                IF ValuesNamed(ExplicitFlags, FlagName(k)) = <<>>
                THEN ValuesNamed(flags, FlagName(k)) = <<decomposed[k]>>
                ELSE ValuesNamed(flags, FlagName(k))
                         = ValuesNamed(ExplicitFlags, FlagName(k))

\* C9 witness: project and location were captured, an explicit mapping
\* produced --project, and the output holds the explicit --project and the
\* injected --location, once each
C9_Witness ==
    /\ pc = "done"
    /\ decomposed = ProjectLocationMap
    /\ ValuesNamed(ExplicitFlags, FlagName(sProject)) = <<sHere>>
    /\ ValuesNamed(flags, FlagName(sProject)) = <<sHere>>
    /\ ValuesNamed(flags, FlagName(sLocation)) = <<sL1>>

\* a choice or key normalized: lower-cased, "-" and "_" removed
Norm(s) == SelectSeq(ToLower(s), LAMBDA c : c \notin {"-", "_"})
Range(q) == {q[i] : i \in 1..Len(q)}
KeysOf(r) == {r.val.members[i].key : i \in 1..Len(r.val.members)}
\* the value's JSON text without insignificant whitespace
Compacted(r) == Raw(r.val, FALSE)

\* what an object or a scalar resolves to under a choice list
ChoiceOfObject(prop, r, value) ==
    IF \E key \in KeysOf(r), c \in Range(prop.Choices) : Norm(key) = Norm(c)
    THEN value \in Range(prop.Choices)
         /\ \E key \in KeysOf(r) : Norm(key) = Norm(value)
    ELSE value = Compacted(r)
ChoiceOfScalar(prop, r, value) ==
    IF \E c \in Range(prop.Choices) : Norm(c) = Norm(String(r))
    THEN value \in Range(prop.Choices) /\ Norm(value) = Norm(String(r))
    ELSE value = String(r)

\* C10 as stated: with no matching choice an array too is emitted as its
\* compacted raw JSON
ClaimedChoice(prop, r, value) ==
    IF IsObject(r) THEN ChoiceOfObject(prop, r, value)
    ELSE IF IsArray(r) THEN value = Compacted(r)
    ELSE ChoiceOfScalar(prop, r, value)

\* C10 as amended: a non-empty array is emitted as the comma-join of its
\* elements, an empty one as its compacted raw JSON
AmendedChoice(prop, r, value) ==
    IF IsObject(r) THEN ChoiceOfObject(prop, r, value)
    ELSE IF IsArray(r)
    THEN value = IF Len(r.val.items) = 0 THEN Compacted(r) ELSE ArrayValue(r)
    ELSE ChoiceOfScalar(prop, r, value)

\* the loop is at a named-flag mapping with choices whose field is in the
\* request and was not consumed
AtChoiceProp ==
    /\ AtProp
    /\ Len(CurrentProp.Choices) > 0
    /\ CurrentProp.FieldPath \notin usedFields
    /\ CurrentProp.Pos.nil
    /\ CurrentProp.Flag # <<>>
    /\ Exists(Get(in.ReqData, CurrentProp.FieldPath))

\* C10 as stated: the value emitted for a mapping with choices is the
\* declared choice matching a key of the object or the scalar; with no
\* match an object or array is emitted as compacted raw JSON and a scalar as
\* itself.
C10_ChoiceResolvedAsStated ==
    [][AtChoiceProp =>
          /\ Len(flags') = Len(flags) + 1
          /\ LastFlag(flags').Name = CurrentProp.Flag
          /\ ClaimedChoice(CurrentProp, Get(in.ReqData, CurrentProp.FieldPath),
                           LastFlag(flags').Value)]_vars

\* C10 as amended: as stated for objects and scalars; a non-empty array for
\* which no choice matches is emitted as the comma-join of its elements, and
\* only an empty array as its compacted raw JSON.
C10_ChoiceResolved ==
    [][AtChoiceProp =>
          /\ Len(flags') = Len(flags) + 1
          /\ LastFlag(flags').Name = CurrentProp.Flag
          /\ AmendedChoice(CurrentProp, Get(in.ReqData, CurrentProp.FieldPath),
                           LastFlag(flags').Value)]_vars

\* C10 witness: the key userManaged and the key user-managed have both been
\* resolved to the declared choice user-managed
C10_Witness ==
    /\ pc \in {"inject", "finish"}
    /\ Len(Properties) = 2
    /\ Properties[1].FieldPath = sSecret \o sDot \o sReplication
    /\ Properties[2].FieldPath = sSecret \o sDot \o sPolicy
    /\ sUserManagedKey \in KeysOf(Get(in.ReqData, Properties[1].FieldPath))
    /\ sUserManaged \in KeysOf(Get(in.ReqData, Properties[2].FieldPath))
    /\ ValuesNamed(flags, FlagName(sPolicy)) = <<sUserManaged, sUserManaged>>

-----------------------------------------------------------------------------
(* Claims about the array branch of GenerateGcloud. *)

\* the string the claim gives one element
ClaimedItem(item, spaced) ==
    IF item.kind = "object"
    THEN IF Len(item.members) = 1
         THEN String(ResultOf(item.members[1].val, spaced))
         ELSE Raw(item, spaced)
    ELSE IF item.kind = "array" THEN Raw(item, spaced)
    ELSE CASE item.type = "String" -> item.str
           [] item.type = "Null" -> <<>>
           [] OTHER -> Raw(item, spaced)

ClaimedItems(r) ==
    [i \in 1..Len(r.val.items) |-> ClaimedItem(r.val.items[i], r.spaced)]
HasComma(s) == \E i \in 1..Len(s) : s[i] = ","

\* the loop is at a mapping of an unconsumed field holding a non-empty
\* array, no declared choice matching the array's text
AtArrayProp ==
    /\ AtProp
    /\ CurrentProp.FieldPath \notin usedFields
    /\ IsArray(Get(in.ReqData, CurrentProp.FieldPath))
    /\ Len(Get(in.ReqData, CurrentProp.FieldPath).val.items) > 0
    /\ FirstChoice(normalizeChoice(String(Get(in.ReqData, CurrentProp.FieldPath))),
                   CurrentProp.Choices) = 0

\* C11: the value of a mapping whose field is a non-empty array is the
\* comma-join, in array order, of one string per element: a scalar's string
\* form, the value of the single field of a one-field object, the raw text
\* of any other object; as many items are joined as the array has elements.
\* The value goes to the position of a positional mapping and, unless it is
\* empty or "null", to a new flag of a named one.
C11_ArrayJoined ==
    [][AtArrayProp =>
          LET r == Get(in.ReqData, CurrentProp.FieldPath)
              joined == Join(ClaimedItems(r), <<",">>)
          IN  /\ ~CurrentProp.Pos.nil =>
                     /\ CurrentProp.Pos.v \in DOMAIN posMap'
                     /\ posMap'[CurrentProp.Pos.v] = joined
                     /\ flags' = flags
              /\ (CurrentProp.Pos.nil /\ CurrentProp.Flag # <<>>) =>
                     IF SkipValue(joined) THEN flags' = flags
                     ELSE /\ Len(flags') = Len(flags) + 1
                          /\ LastFlag(flags').Value = joined
                          /\ (\A i \in 1..Len(r.val.items) : ~HasComma(ClaimedItems(r)[i]))
                                 => Len(Split(LastFlag(flags').Value, ","))
                                        = Len(r.val.items)]_vars

\* C11 witness: a one-field object and a two-field object, written with
\* spaces, have become the field's value and the object's raw text
C11_Witness ==
    /\ pc = "done"
    /\ script.written
    /\ in.ReqData.spaced
    /\ Get(in.ReqData, sTopics).val.items
           = <<JObject(<<Member(sName, JString(sT2))>>),
               JObject(<<Member(sName, JString(sT2)), Member(sEnv, JString(sProd))>>)>>
    /\ ValuesNamed(flags, FlagName(sTopics))
           = <<sT2 \o <<",">>
               \o Raw(JObject(<<Member(sName, JString(sT2)),
                                Member(sEnv, JString(sProd))>>), TRUE)>>

-----------------------------------------------------------------------------
(* The Go target: the schema (api.Message, api.Field), the request as      *)
(* encoding/json decodes it, and the formatting of primitive values.       *)
(* Messages point at each other, so a schema is a table from pointers to   *)
(* messages and MessageType and Parent hold a pointer, "nil" for none.     *)

NoGroup == [nil |-> TRUE, Name |-> <<>>]
OneOfGroup(name) == [nil |-> FALSE, Name |-> name]
NoEnum == [nil |-> TRUE, Values |-> <<>>]

\* api.Field
Field(name, jsonName, typez, messageType) ==
    [Name |-> name, JSONName |-> jsonName, Typez |-> typez,
     MessageType |-> messageType, Repeated |-> FALSE, Map |-> FALSE,
     IsOneOf |-> FALSE, Group |-> NoGroup, Behavior |-> {}, EnumType |-> NoEnum,
     Documentation |-> <<>>]
RepeatedField(f) == [f EXCEPT !.Repeated = TRUE]
MapField(f) == [f EXCEPT !.Map = TRUE]
OneOfField(f, group) == [f EXCEPT !.IsOneOf = TRUE, !.Group = OneOfGroup(group)]

\* api.Message; Messages are the pointers of the nested messages
Message(id, name, parent, fields, messages) ==
    [ID |-> id, Name |-> name, Parent |-> parent, ServicePlaceholder |-> FALSE,
     Fields |-> fields, Messages |-> messages, Documentation |-> <<>>]

\* a value of type any decoded by json.Unmarshal: nil, string, float64,
\* bool, []any or map[string]any.  A float64 is its sign, the decimal
\* digits of its integer part and the decimal digits after the point.
GoValue(kind, str, neg, frac, items, m) ==
    [kind |-> kind, str |-> str, neg |-> neg, frac |-> frac, items |-> items, m |-> m]
GoNil == GoValue("nil", <<>>, FALSE, <<>>, <<>>, EmptyMap)
GoString(s) == GoValue("string", s, FALSE, <<>>, <<>>, EmptyMap)
GoFloat(neg, int, frac) == GoValue("float64", int, neg, frac, <<>>, EmptyMap)
GoBool(b) == GoValue("bool", IF b THEN <<"t", "r", "u", "e">> ELSE <<"f", "a", "l", "s",
    "e">>, FALSE, <<>>, <<>>, EmptyMap)
GoSlice(items) == GoValue("slice", <<>>, FALSE, <<>>, items, EmptyMap)
GoMap(m) == GoValue("map", <<>>, FALSE, <<>>, <<>>, m)

\* the keys of a map in ascending order, as fmt prints them
RECURSIVE SortedKeys(_)
SortedKeys(S) ==
    IF S = {} THEN <<>>
    ELSE LET least == CHOOSE x \in S : \A y \in S \ {x} : StrLess(x, y)
         IN  <<least>> \o SortedKeys(S \ {least})

\* the keys of a map in the order one range statement visits them: a Go map
\* is ranged over in no fixed order, here the order of the keys in order
RangeKeys(m, order) == SelectSeq(order, LAMBDA k : k \in DOMAIN m)

\* strconv.Quote on the characters of the model
RECURSIVE Escape(_)
Escape(s) ==
    IF Len(s) = 0 THEN <<>>
    ELSE (CASE s[1] = "\"" -> <<"\\", "\"">>
            [] s[1] = "\\" -> <<"\\", "\\">>
            [] s[1] = "\n" -> <<"\\", "n">>
            [] OTHER -> <<s[1]>>) \o Escape(Tail(s))
Quote(s) == <<"\"">> \o Escape(s) \o <<"\"">>

DigitChars == <<"0", "1", "2", "3", "4", "5", "6", "7", "8", "9">>
\* strconv.Itoa of a natural number
RECURSIVE Itoa(_)
Itoa(n) == IF n < 10 THEN <<DigitChars[n + 1]>>
           ELSE Itoa(n \div 10) \o <<DigitChars[(n % 10) + 1]>>

\* a <= b on decimal numerals without leading zeros
DecLessEq(a, b) == Len(a) < Len(b) \/ (Len(a) = Len(b) /\ ~StrLess(b, a))

RECURSIVE StripTrailingZeros(_)
StripTrailingZeros(d) ==
    IF Len(d) > 0 /\ d[Len(d)] = "0" THEN StripTrailingZeros(SubSeq(d, 1, Len(d) - 1))
    ELSE d

IsZero(v) == v.str = <<"0">> /\ StripTrailingZeros(v.frac) = <<>>

\* %v of a float64 (strconv 'g' with the shortest digits): the exponent
\* form when the decimal exponent is below -4 or at least 6.  The integer
\* part is "0" only for a value below 1, whose first digit after the point
\* is then not 0.
FormatG(v) ==
    LET sign == IF v.neg THEN <<"-">> ELSE <<>>
        frac == StripTrailingZeros(v.frac)
        below1 == v.str = <<"0">>
        digs == StripTrailingZeros(IF below1 THEN frac ELSE v.str \o frac)
        exp == IF below1 THEN 0 - 1 ELSE Len(v.str) - 1
    IN  IF IsZero(v) THEN sign \o <<"0">>
        ELSE IF exp >= 6
        THEN sign \o <<digs[1]>>
             \o (IF Len(digs) > 1 THEN <<".">> \o Tail(digs) ELSE <<>>)
             \o <<"e", "+">> \o (IF exp < 10 THEN <<"0">> ELSE <<>>) \o Itoa(exp)
        ELSE sign \o v.str \o (IF Len(frac) > 0 THEN <<".">> \o frac ELSE <<>>)

\* fmt.Sprintf("%v", val) and fmt.Sprintf("%q", val)
RECURSIVE FormatV(_)
FormatV(val) ==
    CASE val.kind = "nil" -> <<"<", "n", "i", "l", ">">>
      [] val.kind = "string" -> val.str
      [] val.kind = "bool" -> val.str
      [] val.kind = "float64" -> FormatG(val)
      [] val.kind = "slice" ->
            <<"[">> \o Join([i \in 1..Len(val.items) |-> FormatV(val.items[i])], <<" ">>)
            \o <<"]">>
      [] OTHER ->
            LET keys == SortedKeys(DOMAIN val.m)
            IN  <<"m", "a", "p", "[">>
                \o Join([i \in 1..Len(keys) |->
                            keys[i] \o <<":">> \o FormatV(val.m[keys[i]])], <<" ">>)
                \o <<"]">>
RECURSIVE FormatQ(_)
FormatQ(val) ==
    CASE val.kind = "nil" -> <<"%", "!", "q", "(", "<", "n", "i", "l", ">", ")">>
      [] val.kind = "string" -> Quote(val.str)
      [] val.kind = "bool" -> <<"%", "!", "q", "(", "b", "o", "o", "l", "=">> \o val.str \o <<")">>
      [] val.kind = "float64" -> <<"%", "!", "q", "(", "f", "l", "o", "a", "t", "6",
          "4", "=">> \o FormatG(val) \o <<")">>
      [] val.kind = "slice" ->
            <<"[">> \o Join([i \in 1..Len(val.items) |-> FormatQ(val.items[i])], <<" ">>)
            \o <<"]">>
      [] OTHER ->
            LET keys == SortedKeys(DOMAIN val.m)
            IN  <<"m", "a", "p", "[">>
                \o Join([i \in 1..Len(keys) |->
                            Quote(keys[i]) \o <<":">> \o FormatQ(val.m[keys[i]])], <<" ">>)
                \o <<"]">>

\* the bounds of int64 and uint64
MaxInt64 == <<"9", "2", "2", "3", "3", "7", "2", "0", "3", "6", "8", "5", "4", "7", "7",
    "5", "8", "0", "7">>
MinInt64Magnitude == <<"9", "2", "2", "3", "3", "7", "2", "0", "3", "6", "8", "5", "4",
    "7", "7", "5", "8", "0", "8">>
MaxUint64 == <<"1", "8", "4", "4", "6", "7", "4", "4", "0", "7", "3", "7", "0", "9",
    "5", "5", "1", "6", "1", "5">>

\* int64(v) and uint64(v) of a float64, printed with %d.  The fraction is
\* dropped.  When the type cannot hold the result the conversion yields an
\* implementation-dependent value: oor picks one of those a platform gives
IntOutcomes == <<<<"-">> \o MinInt64Magnitude, MaxInt64, <<"0">>>>
UintOutcomes == <<<<"0">>, MinInt64Magnitude, MaxUint64>>
FormatInt64(v, oor) ==
    IF v.str = <<"0">> THEN <<"0">>
    ELSE IF v.neg
    THEN IF DecLessEq(v.str, MinInt64Magnitude) THEN <<"-">> \o v.str
         ELSE IntOutcomes[oor]
    ELSE IF DecLessEq(v.str, MaxInt64) THEN v.str ELSE IntOutcomes[oor]
FormatUint64(v, oor) ==
    IF v.str = <<"0">> THEN <<"0">>
    ELSE IF v.neg THEN UintOutcomes[oor]
    ELSE IF DecLessEq(v.str, MaxUint64) THEN v.str ELSE UintOutcomes[oor]

\* the Go type names of the scalars
tString == <<"s", "t", "r", "i", "n", "g">>
tInt32 == <<"i", "n", "t", "3", "2">>
tInt64 == <<"i", "n", "t", "6", "4">>
tUint32 == <<"u", "i", "n", "t", "3", "2">>
tUint64 == <<"u", "i", "n", "t", "6", "4">>
tBool == <<"b", "o", "o", "l">>

formatPrimitive(val, typeName, oor) ==
    CASE typeName = tString -> FormatQ(val)
      [] typeName \in {tInt32, tInt64} ->
            IF val.kind = "float64" THEN FormatInt64(val, oor) ELSE FormatV(val)
      [] typeName \in {tUint32, tUint64} ->
            IF val.kind = "float64" THEN FormatUint64(val, oor) ELSE FormatV(val)
      [] OTHER -> FormatV(val)

toPascalCase(s) ==
    LET parts == Split(s, "_")
    IN  Join([i \in 1..Len(parts) |->
                 IF Len(parts[i]) > 0
                 THEN <<UpperChar(parts[i][1])>> \o Tail(parts[i])
                 ELSE parts[i]], <<>>)


-----------------------------------------------------------------------------
(* buildRequestInit and FieldNode.Render. *)

\* the zero FieldNode; Value is nil or a string
NoValue == [nil |-> TRUE, s |-> <<>>]
StringValue(s) == [nil |-> FALSE, s |-> s]
FieldNode ==
    [Name |-> <<>>, TypeName |-> <<>>, Value |-> NoValue, IsMessage |-> FALSE,
     IsRepeated |-> FALSE, IsMap |-> FALSE, IsPrimitive |-> FALSE,
     Children |-> <<>>, Items |-> <<>>, Entries |-> <<>>]
MapEntry(key, value) == [Key |-> key, Value |-> value]

\* the package name buildRequestInit derives from the proto import path
ProtoPkgName(protoPkg) ==
    LET protoPkgParts == Split(protoPkg, "/")
        protoPkgName == protoPkgParts[Len(protoPkgParts)]
    IN  IF \E i \in 1..Len(protoPkgName) : protoPkgName[i] = ";"
        THEN Split(protoPkgName, ";")[2]
        ELSE protoPkgName

\* the loop of getGoTypeName over the parents of a message
RECURSIVE parentLoop(_, _, _)
parentLoop(schema, parent, typeName) ==
    IF parent = "nil" THEN typeName
    ELSE IF schema[parent].Parent = "nil" /\ schema[parent].ServicePlaceholder
    THEN typeName
    ELSE parentLoop(schema, schema[parent].Parent,
                    schema[parent].Name \o <<"_">> \o typeName)

getGoTypeName(schema, msg, protoPkgName) ==
    protoPkgName \o <<".">> \o parentLoop(schema, schema[msg].Parent, schema[msg].Name)

\* the element type of a repeated field
ElemType(schema, field, protoPkgName) ==
    CASE field.Typez = "STRING_TYPE" -> tString
      [] field.Typez \in {"INT32_TYPE", "SINT32_TYPE", "SFIXED32_TYPE"} -> tInt32
      [] field.Typez \in {"INT64_TYPE", "SINT64_TYPE", "SFIXED64_TYPE"} -> tInt64
      [] field.Typez \in {"UINT32_TYPE", "FIXED32_TYPE"} -> tUint32
      [] field.Typez \in {"UINT64_TYPE", "FIXED64_TYPE"} -> tUint64
      [] field.Typez = "BOOL_TYPE" -> tBool
      [] field.Typez = "MESSAGE_TYPE" /\ field.MessageType # "nil" ->
            <<"*">> \o getGoTypeName(schema, field.MessageType, protoPkgName)
      [] OTHER -> <<>>

\* the type a singular scalar field is formatted as
SingularType(field) ==
    CASE field.Typez \in {"INT32_TYPE", "SINT32_TYPE", "SFIXED32_TYPE"} -> tInt32
      [] field.Typez \in {"INT64_TYPE", "SINT64_TYPE", "SFIXED64_TYPE"} -> tInt64
      [] field.Typez \in {"UINT32_TYPE", "FIXED32_TYPE"} -> tUint32
      [] field.Typez \in {"UINT64_TYPE", "FIXED64_TYPE"} -> tUint64
      [] field.Typez = "BOOL_TYPE" -> tBool
      [] OTHER -> tString

TrimPrefix(s, prefix) ==
    IF Len(s) >= Len(prefix) /\ SubSeq(s, 1, Len(prefix)) = prefix
    THEN SubSeq(s, Len(prefix) + 1, Len(s))
    ELSE s

\* what a loop keeps of the elements it did not skip
Skipped == [ok |-> FALSE, node |-> FieldNode]
Built(node) == [ok |-> TRUE, node |-> node]
Kept(built) ==
    LET kept == SelectSeq(built, LAMBDA c : c.ok)
    IN  [i \in 1..Len(kept) |-> kept[i].node]

PrimitiveNode(val, typeName, env) ==
    [FieldNode EXCEPT !.IsPrimitive = TRUE,
                      !.Value = StringValue(formatPrimitive(val, typeName, env.oor))]

\* env is what the run does not fix: the order maps are ranged over (order)
\* and the result of a conversion the target type cannot hold (oor)
RECURSIVE buildRequestInit(_, _, _, _, _)

\* the repeated branch; the element messages are never nil
RepeatedNode(schema, field, val, protoPkg, env, node) ==
    IF val.kind # "slice" THEN Skipped
    ELSE LET elemType == ElemType(schema, field, ProtoPkgName(protoPkg))
             item(i) ==
                 IF field.Typez = "MESSAGE_TYPE"
                 THEN IF val.items[i].kind # "map" THEN Skipped
                      ELSE Built([buildRequestInit(schema, field.MessageType,
                                                   val.items[i].m, protoPkg, env)
                                     EXCEPT !.TypeName = TrimPrefix(elemType, <<"*">>)])
                 ELSE Built(PrimitiveNode(val.items[i], elemType, env))
         IN  Built([node EXCEPT !.IsRepeated = TRUE,
                                !.TypeName = <<"[", "]">> \o elemType,
                                !.Items = Kept([i \in 1..Len(val.items) |-> item(i)])])

\* the field named "value" of a map field's entry message, 0 when none
ValueFieldIndex(fields) ==
    IF \E i \in 1..Len(fields) : fields[i].Name = <<"v", "a", "l", "u", "e">>
    THEN CHOOSE i \in 1..Len(fields) :
             /\ fields[i].Name = <<"v", "a", "l", "u", "e">>
             /\ \A j \in 1..(i - 1) : fields[j].Name # <<"v", "a", "l", "u", "e">>
    ELSE 0

\* the map branch
MapNode(schema, field, val, protoPkg, env, node) ==
    IF val.kind # "map" THEN Skipped
    ELSE IF field.MessageType = "nil" THEN Skipped
    ELSE IF ValueFieldIndex(schema[field.MessageType].Fields) = 0 THEN Skipped
    ELSE LET fields == schema[field.MessageType].Fields
             valueField == fields[ValueFieldIndex(fields)]
             isMsgVal == valueField.Typez = "MESSAGE_TYPE"
                         /\ valueField.MessageType # "nil"
             valTypeStr ==
                 IF isMsgVal
                 THEN <<"*">> \o getGoTypeName(schema, valueField.MessageType,
                                               ProtoPkgName(protoPkg))
                 ELSE tString
             keys == RangeKeys(val.m, env.order)
             entry(k) ==
                 IF isMsgVal
                 THEN IF val.m[k].kind # "map" THEN Skipped
                      ELSE Built(MapEntry(k,
                               [buildRequestInit(schema, valueField.MessageType,
                                                 val.m[k].m, protoPkg, env)
                                   EXCEPT !.TypeName = TrimPrefix(valTypeStr, <<"*">>)]))
                 ELSE Built(MapEntry(k, PrimitiveNode(val.m[k], valTypeStr, env)))
         IN  Built([node EXCEPT !.IsMap = TRUE,
                                !.TypeName = <<"m", "a", "p", "[", "s", "t", "r", "i",
                                    "n", "g", "]">> \o valTypeStr,
                                !.Entries = Kept([i \in 1..Len(keys) |-> entry(keys[i])])])

\* the singular branch
SingularNode(schema, field, val, protoPkg, env, node) ==
    IF field.Typez = "MESSAGE_TYPE"
    THEN IF field.MessageType = "nil" THEN Skipped
         ELSE IF val.kind # "map" THEN Skipped
         ELSE LET subNode == buildRequestInit(schema, field.MessageType, val.m,
                                              protoPkg, env)
              IN  Built([node EXCEPT
                            !.IsMessage = TRUE,
                            !.TypeName = getGoTypeName(schema, field.MessageType,
                                                       ProtoPkgName(protoPkg)),
                            !.Children = subNode.Children])
    ELSE Built([node EXCEPT
                   !.IsPrimitive = TRUE,
                   !.Value = PrimitiveNode(val, SingularType(field), env).Value])

\* the node wrapped around the node of a oneof field
WrapperNode(schema, msg, field, protoPkg, node) ==
    LET pascal == toPascalCase(field.Name)
        nested == schema[msg].Messages
        typeName == IF \E i \in 1..Len(nested) : schema[nested[i]].Name = pascal
                    THEN pascal \o <<"_">>
                    ELSE pascal
    IN  [FieldNode EXCEPT
            !.Name = toPascalCase(field.Group.Name),
            !.TypeName = ProtoPkgName(protoPkg) \o <<".">> \o schema[msg].Name
                         \o <<"_">> \o typeName,
            !.IsMessage = TRUE,
            !.Children = <<node>>]

\* mutant: a oneof field is attached like any other
AttachedUnwrapped(schema, msg, field, protoPkg, node) == node

\* what is appended to root.Children for a field that was not skipped
Attached(schema, msg, field, protoPkg, node) ==
    IF field.IsOneOf /\ ~field.Group.nil
    THEN WrapperNode(schema, msg, field, protoPkg, node)
    ELSE node

\* one iteration of the loop over msg.Fields: nothing, or the child appended
FieldChild(schema, msg, field, data, protoPkg, env) ==
    LET named == field.Name \in DOMAIN data
        ok == named \/ (field.JSONName # <<>> /\ field.JSONName \in DOMAIN data)
        val == IF named THEN data[field.Name] ELSE data[field.JSONName]
        node == [FieldNode EXCEPT !.Name = toPascalCase(field.Name)]
        built == IF field.Repeated
                 THEN RepeatedNode(schema, field, val, protoPkg, env, node)
                 ELSE IF field.Map
                 THEN MapNode(schema, field, val, protoPkg, env, node)
                 ELSE SingularNode(schema, field, val, protoPkg, env, node)
    IN  IF ~ok THEN Skipped
        ELSE IF ~built.ok THEN Skipped
        ELSE Built(Attached(schema, msg, field, protoPkg, built.node))

buildRequestInit(schema, msg, data, protoPkg, env) ==
    LET root == [FieldNode EXCEPT
                    !.IsMessage = TRUE,
                    !.TypeName = getGoTypeName(schema, msg, ProtoPkgName(protoPkg))]
        fields == schema[msg].Fields
    IN  IF DOMAIN data = {} THEN root
        ELSE [root EXCEPT
                 !.Children = Kept([i \in 1..Len(fields) |->
                                      FieldChild(schema, msg, fields[i], data,
                                                 protoPkg, env)])]

\* FieldNode.Render
RECURSIVE FieldNodeRender(_)
FieldNodeRender(n) ==
    IF n.IsMessage
    THEN <<"&">> \o n.TypeName \o <<"{", "\n">>
         \o Join([i \in 1..Len(n.Children) |->
                     n.Children[i].Name \o <<":", " ">>
                     \o FieldNodeRender(n.Children[i]) \o <<",", "\n">>], <<>>)
         \o <<"}">>
    ELSE IF n.IsRepeated
    THEN n.TypeName \o <<"{", "\n">>
         \o Join([i \in 1..Len(n.Items) |->
                     FieldNodeRender(n.Items[i]) \o <<",", "\n">>], <<>>)
         \o <<"}">>
    ELSE IF n.IsMap
    THEN n.TypeName \o <<"{", "\n">>
         \o Join([i \in 1..Len(n.Entries) |->
                     Quote(n.Entries[i].Key) \o <<":", " ">>
                     \o FieldNodeRender(n.Entries[i].Value) \o <<",", "\n">>], <<>>)
         \o <<"}">>
    ELSE IF n.IsPrimitive
    THEN IF n.Value.nil THEN <<"<", "n", "i", "l", ">">> ELSE n.Value.s
    ELSE <<>>


-----------------------------------------------------------------------------
(* buildRequestInit and Render run on bounded schemas and requests. *)

\* most keys of the request object
MaxKeys == 2

sFoo == <<"f", "o", "o">>
sBar == <<"b", "a", "r">>
sQux == <<"q", "u", "x">>
sDisplayNameField == <<"d", "i", "s", "p", "l", "a", "y", "_", "n", "a", "m", "e">>
sDisplayNameJSON == <<"d", "i", "s", "p", "l", "a", "y", "N", "a", "m", "e">>
sChild == <<"c", "h", "i", "l", "d">>
sOther == <<"o", "t", "h", "e", "r">>
sNested == <<"n", "e", "s", "t", "e", "d">>
sItems == <<"i", "t", "e", "m", "s">>
sKids == <<"k", "i", "d", "s">>
sSelf == <<"s", "e", "l", "f">>
sChildren == <<"c", "h", "i", "l", "d", "r", "e", "n">>
sBroken == <<"b", "r", "o", "k", "e", "n">>
sKey == <<"k", "e", "y">>
sValue == <<"v", "a", "l", "u", "e">>
sK1 == <<"k", "1">>
sK2 == <<"k", "2">>
sV1 == <<"v", "1">>
sV2 == <<"v", "2">>
sStrVal == <<"s", "t", "r", "_", "v", "a", "l">>
sEmptyMsg == <<"e", "m", "p", "t", "y", "_", "m", "s", "g">>
sMaybe == <<"m", "a", "y", "b", "e">>
sChoice == <<"c", "h", "o", "i", "c", "e">>
sChoice1 == <<"c", "h", "o", "i", "c", "e", "1">>
sI32 == <<"i", "3", "2">>
sS64 == <<"s", "6", "4">>
sU32 == <<"u", "3", "2">>
sU64 == <<"u", "6", "4">>
sNums == <<"n", "u", "m", "s">>
sA == <<"a">>
sB == <<"b">>
sProtoPkg == <<"c", "l", "o", "u", "d", ".", "g", "o", "o", "g", "l", "e", ".", "c",
    "o", "m", "/", "g", "o", "/", "l", "i", "b", "r", "a", "r", "y", "/", "a", "p", "i",
    "v", "1", "/", "l", "i", "b", "r", "a", "r", "y", "p", "b">>
sProtoPkgNamed == <<"c", "l", "o", "u", "d", ".", "g", "o", "o", "g", "l", "e", ".",
    "c", "o", "m", "/", "g", "o", "/", "l", "i", "b", "r", "a", "r", "y", "/", "a", "p",
    "i", "v", "1", ";", "l", "i", "b", "r", "a", "r", "y", "p", "b">>
sLibrarypb == <<"l", "i", "b", "r", "a", "r", "y", "p", "b">>

\* the message graph: TestMsg and its relatives of TestGenerateGo, a
\* message pointing at itself, maps of strings and of messages, a map whose
\* entry message has no value field, oneof fields, integer fields
GoSchema ==
    [p \in {"ChildMsg", "EmptyMsg", "TestMsg", "Parent", "Parent.Child", "MapMsg",
            "LabelsEntry", "ChildrenEntry", "BrokenEntry", "MsgWithOneOf",
            "Collide", "Collide.StrVal", "NumMsg"} |->
        CASE p = "ChildMsg" ->
               Message(<<"C", "h", "i", "l", "d", "M", "s", "g">>, <<"C", "h", "i", "l",
                   "d", "M", "s", "g">>, "nil",
                       <<Field(sFoo, <<>>, "STRING_TYPE", "nil")>>, <<>>)
          [] p = "EmptyMsg" -> Message(<<"E", "m", "p", "t", "y", "M", "s", "g">>, <<"E",
              "m", "p", "t", "y", "M", "s", "g">>, "nil", <<>>, <<>>)
          [] p = "TestMsg" ->
               Message(<<"T", "e", "s", "t", "M", "s", "g">>, <<"T", "e", "s", "t", "M",
                   "s", "g">>, "nil",
                       <<Field(sFoo, <<>>, "STRING_TYPE", "nil"),
                         Field(sDisplayNameField, sDisplayNameJSON, "STRING_TYPE", "nil"),
                         Field(sChild, sChild, "MESSAGE_TYPE", "ChildMsg")>>, <<>>)
          [] p = "Parent" ->
               Message(<<"P", "a", "r", "e", "n", "t">>, <<"P", "a", "r", "e", "n", "t">>, "nil",
                       <<Field(sNested, <<>>, "MESSAGE_TYPE", "Parent.Child"),
                         RepeatedField(Field(sItems, <<>>, "STRING_TYPE", "nil")),
                         RepeatedField(Field(sKids, <<>>, "MESSAGE_TYPE", "ChildMsg")),
                         Field(sSelf, <<>>, "MESSAGE_TYPE", "Parent")>>,
                       <<"Parent.Child">>)
          [] p = "Parent.Child" ->
               Message(<<"P", "a", "r", "e", "n", "t", ".", "C", "h", "i", "l", "d">>, <<"C",
                   "h", "i", "l", "d">>, "Parent",
                       <<Field(sFoo, <<>>, "STRING_TYPE", "nil")>>, <<>>)
          [] p = "MapMsg" ->
               Message(<<"M", "a", "p", "M", "s", "g">>, <<"M", "a", "p", "M", "s", "g">>, "nil",
                       <<MapField(Field(sLabels, <<>>, "MESSAGE_TYPE", "LabelsEntry")),
                         MapField(Field(sChildren, <<>>, "MESSAGE_TYPE", "ChildrenEntry")),
                         MapField(Field(sBroken, <<>>, "MESSAGE_TYPE", "BrokenEntry"))>>,
                       <<>>)
          [] p = "LabelsEntry" ->
               Message(<<"L", "a", "b", "e", "l", "s", "E", "n", "t", "r", "y">>, <<"L",
                   "a", "b", "e", "l", "s", "E", "n", "t", "r", "y">>, "MapMsg",
                       <<Field(sKey, <<>>, "STRING_TYPE", "nil"),
                         Field(sValue, <<>>, "STRING_TYPE", "nil")>>, <<>>)
          [] p = "ChildrenEntry" ->
               Message(<<"C", "h", "i", "l", "d", "r", "e", "n", "E", "n", "t", "r",
                   "y">>, <<"C", "h", "i", "l", "d", "r", "e", "n", "E", "n", "t", "r",
                   "y">>, "MapMsg",
                       <<Field(sKey, <<>>, "STRING_TYPE", "nil"),
                         Field(sValue, <<>>, "MESSAGE_TYPE", "ChildMsg")>>, <<>>)
          [] p = "BrokenEntry" ->
               Message(<<"B", "r", "o", "k", "e", "n", "E", "n", "t", "r", "y">>, <<"B",
                   "r", "o", "k", "e", "n", "E", "n", "t", "r", "y">>, "MapMsg",
                       <<Field(sKey, <<>>, "STRING_TYPE", "nil")>>, <<>>)
          [] p = "MsgWithOneOf" ->
               Message(<<"M", "s", "g", "W", "i", "t", "h", "O", "n", "e", "O", "f">>, <<"M",
                   "s", "g", "W", "i", "t", "h", "O", "n", "e", "O", "f">>, "nil",
                       <<OneOfField(Field(sStrVal, <<>>, "STRING_TYPE", "nil"), sChoice),
                         OneOfField(Field(sEmptyMsg, <<>>, "MESSAGE_TYPE", "EmptyMsg"),
                                    sChoice),
                         Field(sFoo, <<>>, "STRING_TYPE", "nil"),
                         [Field(sMaybe, <<>>, "STRING_TYPE", "nil")
                             EXCEPT !.IsOneOf = TRUE]>>, <<>>)
          [] p = "Collide" ->
               Message(<<"C", "o", "l", "l", "i", "d", "e">>, <<"C", "o", "l", "l", "i",
                   "d", "e">>, "nil",
                       <<OneOfField(Field(sStrVal, <<>>, "STRING_TYPE", "nil"), sChoice),
                         Field(sFoo, <<>>, "STRING_TYPE", "nil")>>,
                       <<"Collide.StrVal">>)
          [] p = "Collide.StrVal" ->
               Message(<<"C", "o", "l", "l", "i", "d", "e", ".", "S", "t", "r", "V",
                   "a", "l">>, <<"S", "t", "r", "V", "a", "l">>, "Collide", <<>>, <<>>)
          [] OTHER ->
               Message(<<"N", "u", "m", "M", "s", "g">>, <<"N", "u", "m", "M", "s", "g">>, "nil",
                       <<Field(sI32, <<>>, "INT32_TYPE", "nil"),
                         Field(sS64, <<>>, "SINT64_TYPE", "nil"),
                         Field(sU32, <<>>, "FIXED32_TYPE", "nil"),
                         Field(sU64, <<>>, "UINT64_TYPE", "nil"),
                         RepeatedField(Field(sNums, <<>>, "INT32_TYPE", "nil"))>>,
                       <<>>)]

\* a map[string]any with one and with two keys
Map1(k, v) == (k :> v)
Map2(k1, v1, k2, v2) == (k1 :> v1) @@ (k2 :> v2)

Whole(digits) == GoFloat(FALSE, digits, <<>>)
Minus(digits) == GoFloat(TRUE, digits, <<>>)

\* the float64 values: small ones, a fraction, and the values just past
\* the bounds of int32, uint32 and int64 (each is a float64 exactly)
GoNumbers ==
    {Whole(<<"1", "2", "3">>), Minus(<<"1">>), GoFloat(FALSE, <<"1">>, <<"5">>),
     Whole(<<"2", "1", "4", "7", "4", "8", "3", "6", "4", "8">>),
     Whole(<<"4", "2", "9", "4", "9", "6", "7", "2", "9", "6">>),
     Whole(MinInt64Magnitude)}

ChildData == Map1(sFoo, GoString(sBar))

\* per root message: the keys and the values its requests are made of
GoInputs ==
    {[msg |-> "TestMsg", protoPkg |-> sProtoPkg,
      keys |-> {sFoo, sDisplayNameField, sDisplayNameJSON, sChild, sOther},
      values |-> {GoString(sBar), GoString(sQux), GoNil, GoMap(ChildData),
                  GoMap(EmptyMap), Whole(<<"1", "2", "3">>)}],
     [msg |-> "Parent", protoPkg |-> sProtoPkg,
      keys |-> {sNested, sItems, sKids, sSelf},
      values |-> {GoMap(ChildData), GoMap(EmptyMap),
                  GoSlice(<<GoString(sA), GoString(sB)>>),
                  GoSlice(<<GoMap(ChildData), GoString(sA)>>), GoSlice(<<>>),
                  GoString(sA),
                  GoMap(Map1(sSelf, GoMap(Map1(sNested, GoMap(ChildData)))))}],
     [msg |-> "MapMsg", protoPkg |-> sProtoPkg,
      keys |-> {sLabels, sChildren, sBroken},
      values |-> {GoMap(Map1(sK1, GoString(sV1))),
                  GoMap(Map2(sK1, GoString(sV1), sK2, GoString(sV2))),
                  GoMap(Map2(sK1, GoMap(ChildData), sK2, GoNil)),
                  GoMap(Map2(sK1, GoMap(ChildData), sK2, GoMap(EmptyMap))),
                  GoMap(EmptyMap), GoString(sA)}],
     [msg |-> "MsgWithOneOf", protoPkg |-> sProtoPkg,
      keys |-> {sStrVal, sEmptyMsg, sFoo, sMaybe},
      values |-> {GoString(sChoice1), GoMap(EmptyMap), GoNil}],
     [msg |-> "Collide", protoPkg |-> sProtoPkgNamed,
      keys |-> {sStrVal, sFoo},
      values |-> {GoString(sChoice1), GoMap(EmptyMap)}],
     [msg |-> "NumMsg", protoPkg |-> sProtoPkg,
      keys |-> {sI32, sS64, sU32, sU64, sNums},
      values |-> GoNumbers
                 \cup {GoSlice(<<Whole(<<"1", "2", "3">>), Whole(<<"3", "0", "0", "0",
                     "0", "0", "0", "0", "0", "0">>)>>), GoString(sA)}]}

\* the request objects over some keys: at most MaxKeys of them present
DataOver(keys, values) ==
    UNION {[S -> values] : S \in {T \in SUBSET keys : Cardinality(T) <= MaxKeys}}

\* the orders a range statement may visit the keys of the maps in
KeyOrders == {<<sK1, sK2>>, <<sK2, sK1>>}
\* the outcomes of a conversion the type cannot hold; which one is a
\* property of the platform, the same in every run
OutOfRange == 1..3

InitGo ==
    /\ Blank
    /\ in = NoInput
    /\ pc = "build"
    /\ call \in UNION {{[op |-> "buildRequestInit", msg |-> c.msg, data |-> d,
                          protoPkg |-> c.protoPkg, oor |-> oor,
                          tree |-> FieldNode, trees |-> <<>>, texts |-> <<>>] :
                            d \in DataOver(c.keys, c.values), oor \in OutOfRange} :
                                c \in GoInputs}

\* buildRequestInit on the request
BuildTree ==
    /\ pc = "build"
    /\ \E order \in KeyOrders :
          call' = [call EXCEPT
                      !.tree = buildRequestInit(GoSchema, call.msg, call.data,
                                                call.protoPkg,
                                                [order |-> order, oor |-> call.oor])]
    /\ pc' = "render"
    /\ UNCHANGED <<in, mapping, propIdx, decomposed, usedFields, posMap, flags,
                   injectLeft, positionalArgs, script, err>>

\* reqInit.Render(); the tree is then built and rendered once more from the
\* same schema and request
RenderTree ==
    /\ pc = "render"
    /\ call' = [call EXCEPT !.trees = Append(call.trees, call.tree),
                            !.texts = Append(call.texts, FieldNodeRender(call.tree))]
    /\ pc' = IF Len(call.texts) = 0 THEN "build" ELSE "rendered"
    /\ UNCHANGED <<in, mapping, propIdx, decomposed, usedFields, posMap, flags,
                   injectLeft, positionalArgs, script, err>>

NextGo == BuildTree \/ RenderTree

SpecGo == InitGo /\ [][NextGo]_vars


-----------------------------------------------------------------------------
(* Claims about buildRequestInit and the rendering of its tree. *)

GoMsg == GoSchema[call.msg]
GoFields == GoMsg.Fields
Built1 == Len(call.trees) >= 1
Root == call.trees[1]

\* the subsequence of the message's fields that satisfy a condition
FieldsWhere(cond(_)) == SelectSeq(GoFields, cond)

\* the JSON object has a key for the field: its declared name or, failing
\* that, its JSON name
HasKey(f) ==
    f.Name \in DOMAIN call.data
    \/ (f.JSONName # <<>> /\ f.JSONName \in DOMAIN call.data)
KeyValue(f) ==
    IF f.Name \in DOMAIN call.data THEN call.data[f.Name] ELSE call.data[f.JSONName]

\* a name in PascalCase: the underscores removed, the first letter and each
\* letter after an underscore a capital
Pascal(s) ==
    LET capital(i) == i = 1 \/ s[i - 1] = "_"
        kept == SelectSeq([i \in 1..Len(s) |-> i], LAMBDA i : s[i] # "_")
    IN  [k \in 1..Len(kept) |->
            IF capital(kept[k]) THEN UpperChar(s[kept[k]]) ELSE s[kept[k]]]

\* the field a child stands for: its own name, or for a wrapper the name of
\* its only child
ChildIsFor(child, f) ==
    IF f.IsOneOf /\ ~f.Group.nil
    THEN Len(child.Children) = 1 /\ child.Children[1].Name = Pascal(f.Name)
    ELSE child.Name = Pascal(f.Name)

\* C12: the children of the returned message node are exactly the schema
\* fields for which the JSON object has a key equal to the declared name
\* or, failing that, the JSON name, one child per such field in declaration
\* order; absent fields and unknown keys give no child; an empty object
\* gives a message node without children.
C12_ChildrenAreTheKeyedFields ==
    Built1 =>
        LET present == FieldsWhere(HasKey)
        IN  /\ Root.IsMessage
            /\ Len(Root.Children) = Len(present)
            /\ \A i \in 1..Len(Root.Children) :
                  i <= Len(present) => ChildIsFor(Root.Children[i], present[i])
            /\ (DOMAIN call.data = {} => Root.Children = <<>>)

\* the value has the shape the field's kind requires: an array for a
\* repeated field, an object for a map field whose entry message has a
\* field named value, an object for a message field
HasValueField(f) ==
    /\ f.MessageType # "nil"
    /\ \E i \in 1..Len(GoSchema[f.MessageType].Fields) :
          GoSchema[f.MessageType].Fields[i].Name = sValue
Shaped(f) ==
    IF f.Repeated THEN KeyValue(f).kind = "slice"
    ELSE IF f.Map THEN KeyValue(f).kind = "map" /\ HasValueField(f)
    ELSE IF f.Typez = "MESSAGE_TYPE"
    THEN f.MessageType # "nil" /\ KeyValue(f).kind = "map"
    ELSE TRUE
Resolved(f) == HasKey(f) /\ Shaped(f)

InOneOf(f) == f.IsOneOf /\ ~f.Group.nil
HasNestedNamed(name) ==
    \E i \in 1..Len(GoMsg.Messages) : GoSchema[GoMsg.Messages[i]].Name = name

\* the type name of the wrapper of a oneof field
WrapperTypeName(f) ==
    sLibrarypb \o <<".">> \o GoMsg.Name \o <<"_">> \o Pascal(f.Name)
    \o (IF HasNestedNamed(Pascal(f.Name)) THEN <<"_">> ELSE <<>>)

\* the node a field resolves to when it is in no oneof group
ResolvedNode(f, env) ==
    FieldChild(GoSchema, call.msg, [f EXCEPT !.IsOneOf = FALSE, !.Group = NoGroup],
               call.data, call.protoPkg, env).node

\* C13: a field that resolves to a node and belongs to a oneof group is
\* attached as a message node named after the group in PascalCase, of type
\* <pkg>.<OwningMessage>_<FieldPascal> ("_" appended when the owning message
\* has a nested message of that name), whose only child is the resolved
\* node; a field outside any oneof group is attached as its resolved node.
C13_OneOfWrapped ==
    Built1 =>
        LET resolved == FieldsWhere(Resolved)
        IN  /\ Len(Root.Children) = Len(resolved)
            /\ \A i \in 1..Len(resolved) :
                  LET f == resolved[i]
                      child == Root.Children[i]
                  IN  \E order \in KeyOrders :
                         LET node == ResolvedNode(f, [order |-> order, oor |-> call.oor])
                         IN  /\ node.Name = Pascal(f.Name)
                             /\ IF InOneOf(f)
                                THEN /\ child.Name = Pascal(f.Group.Name)
                                     /\ child.TypeName = WrapperTypeName(f)
                                     /\ child.IsMessage
                                     /\ ~child.IsPrimitive /\ ~child.IsMap
                                     /\ ~child.IsRepeated
                                     /\ child.Children = <<node>>
                                ELSE child = node

\* C13 witness: str_val of the group choice is set, the owning message
\* Collide has a nested message StrVal, and the text is rendered
C13_Witness ==
    /\ pc = "rendered"
    /\ call.msg = "Collide"
    /\ call.data = Map1(sStrVal, GoString(sChoice1))
    /\ call.texts[1] = <<"&", "l", "i", "b", "r", "a", "r", "y", "p", "b", ".", "C",
        "o", "l", "l", "i", "d", "e", "{", "\n", "C", "h", "o", "i", "c", "e", ":", " ",
        "&", "l", "i", "b", "r", "a", "r", "y", "p", "b", ".", "C", "o", "l", "l", "i",
        "d", "e", "_", "S", "t", "r", "V", "a", "l", "_", "{", "\n", "S", "t", "r", "V",
        "a", "l", ":", " ", "\"", "c", "h", "o", "i", "c", "e", "1", "\"", ",", "\n",
        "}", ",", "\n", "}">>


\* the bounds of int32 and uint32
MaxInt32 == <<"2", "1", "4", "7", "4", "8", "3", "6", "4", "7">>
MinInt32Magnitude == <<"2", "1", "4", "7", "4", "8", "3", "6", "4", "8">>
MaxUint32 == <<"4", "2", "9", "4", "9", "6", "7", "2", "9", "5">>

IsDigits(s) == Len(s) > 0 /\ \A i \in 1..Len(s) : s[i] \in Range(DigitChars)

\* an integer literal within the value range of a Go integer type
InRangeOf(text, typeName) ==
    LET neg == Len(text) > 0 /\ text[1] = "-"
        mag == IF neg THEN Tail(text) ELSE text
        most == CASE typeName = tInt32 -> IF neg THEN MinInt32Magnitude ELSE MaxInt32
                  [] typeName = tInt64 -> IF neg THEN MinInt64Magnitude ELSE MaxInt64
                  [] typeName = tUint32 -> IF neg THEN <<"0">> ELSE MaxUint32
                  [] OTHER -> IF neg THEN <<"0">> ELSE MaxUint64
    IN  IsDigits(mag) /\ DecLessEq(mag, most)

IsIntegerField(f) == SingularType(f) \in {tInt32, tInt64, tUint32, tUint64}

\* C14: a JSON number given for a scalar field declared int32, int64,
\* uint32 or uint64 (or one of the sint, sfixed and fixed aliases), singular
\* or as an item of a repeated field, is rendered as an integer literal
\* that lies in the value range of the declared type.
C14_IntegerWithinDeclaredWidth ==
    Built1 =>
        LET resolved == FieldsWhere(Resolved)
        IN  \A i \in 1..Len(resolved) :
               LET f == resolved[i]
                   child == Root.Children[i]
                   val == KeyValue(f)
               IN  (IsIntegerField(f) /\ i <= Len(Root.Children)) =>
                      IF f.Repeated
                      THEN \A j \in 1..Len(child.Items) :
                              val.items[j].kind = "float64" =>
                                 InRangeOf(child.Items[j].Value.s, SingularType(f))
                      ELSE val.kind = "float64" =>
                              InRangeOf(child.Value.s, SingularType(f))


\* how many times a text occurs in another
Occurrences(sub, text) ==
    Cardinality({i \in 1..(Len(text) - Len(sub) + 1) :
                    SubSeq(text, i, i + Len(sub) - 1) = sub})

\* C15: for a map field whose JSON value is an object (and whose entry
\* message has a value field), the map node has exactly one entry per key
\* of the object, and each key appears exactly once, quoted and followed by
\* a colon, in the rendered map literal, for string-valued and
\* message-valued maps alike.
C15_MapEntriesAreTheKeys ==
    Built1 =>
        LET resolved == FieldsWhere(Resolved)
        IN  \A i \in 1..Len(resolved) :
               LET f == resolved[i]
                   child == Root.Children[i]
                   keys == DOMAIN KeyValue(f).m
               IN  (f.Map /\ ~f.Repeated /\ i <= Len(Root.Children)) =>
                      /\ child.IsMap
                      /\ Len(child.Entries) = Cardinality(keys)
                      /\ {child.Entries[j].Key : j \in 1..Len(child.Entries)} = keys
                      /\ \A k \in keys :
                            Occurrences(Quote(k) \o <<":", " ">>,
                                        FieldNodeRender(child)) = 1

\* C16: the tree built and rendered twice from the same schema and the same
\* JSON object gives the same text both times.
C16_RenderedTwiceAlike ==
    pc = "rendered" => call.texts[1] = call.texts[2]


-----------------------------------------------------------------------------
(* The JSON-Schema exporter: ToJSONSchema and the schemaWalker.  The walk  *)
(* is recursive in the source; here the calls of buildObject that have not *)
(* returned are the frames of call.stack, the last one running.            *)

\* most fields of the root message
MaxFields == 2
\* most calls of buildObject that have not returned
MaxDepth == 4

\* jsonschema.Schema, the members the exporter sets; Items and
\* AdditionalProperties hold no schema or one
Schema ==
    [Type |-> <<>>, Ref |-> <<>>, Description |-> <<>>, ContentEncoding |-> <<>>,
     Enum |-> <<>>, Items |-> <<>>, AdditionalProperties |-> <<>>,
     Properties |-> EmptyMap, Required |-> <<>>, Definitions |-> EmptyMap]

\* mutant: no field counts as output-only
OutputOnlyNever(f) == FALSE

\* slices.Contains(f.Behavior, api.FIELD_BEHAVIOR_OUTPUT_ONLY)
OutputOnly(f) == "FIELD_BEHAVIOR_OUTPUT_ONLY" \in f.Behavior
\* api.Field.DocumentAsRequired
DocumentAsRequired(f) == "FIELD_BEHAVIOR_REQUIRED" \in f.Behavior

sRootRef == <<"#">>
sDefinitions == <<"#", "/", "d", "e", "f", "i", "n", "i", "t", "i", "o", "n", "s", "/">>
MessageTypes == {"MESSAGE_TYPE", "GROUP_TYPE"}

\* mutant: no reference is ever recorded
RecordRefNever(refMap, id, ref) == refMap

\* mutant: no definition is ever stored
StoreDefNever(defs, id, s) == defs

\* w.defs[msg.ID] = s
StoreDef(defs, id, s) ==
    [x \in DOMAIN defs \cup {id} |-> IF x = id THEN s ELSE defs[x]]

\* w.refMap[msg.ID] = ref
RecordRef(refMap, id, ref) ==
    [x \in DOMAIN refMap \cup {id} |-> IF x = id THEN ref ELSE refMap[x]]

\* the field of a map field's entry message that is named "value", as a
\* sequence of no field or one
ValueField(graph, f) ==
    IF f.MessageType = "nil" THEN <<>>
    ELSE LET fields == graph[f.MessageType].Fields
             i == ValueFieldIndex(fields)
         IN  IF i = 0 THEN <<>> ELSE <<fields[i]>>

\* the field whose type buildField builds with buildFieldType
TypedField(graph, f) == IF f.Map THEN ValueField(graph, f) ELSE <<f>>

\* the messages buildField calls getRef with: none or one, "nil" for a nil
\* pointer
RefCalls(graph, f) ==
    LET typed == TypedField(graph, f)
    IN  IF Len(typed) = 1 /\ typed[1].Typez \in MessageTypes
        THEN <<typed[1].MessageType>>
        ELSE <<>>

\* buildFieldType; ref is what getRef returned when it was called
buildFieldType(f, ref) ==
    CASE f.Typez \in {"DOUBLE_TYPE", "FLOAT_TYPE"} ->
            [Schema EXCEPT !.Type = <<"n", "u", "m", "b", "e", "r">>]
      [] f.Typez \in {"INT64_TYPE", "UINT64_TYPE", "INT32_TYPE", "FIXED64_TYPE",
                      "FIXED32_TYPE", "UINT32_TYPE", "SFIXED32_TYPE",
                      "SFIXED64_TYPE", "SINT32_TYPE", "SINT64_TYPE"} ->
            [Schema EXCEPT !.Type = <<"i", "n", "t", "e", "g", "e", "r">>]
      [] f.Typez = "BOOL_TYPE" -> [Schema EXCEPT !.Type = <<"b", "o", "o", "l", "e", "a", "n">>]
      [] f.Typez = "STRING_TYPE" -> [Schema EXCEPT !.Type = <<"s", "t", "r", "i", "n", "g">>]
      [] f.Typez = "BYTES_TYPE" ->
            [Schema EXCEPT !.Type = <<"s", "t", "r", "i", "n", "g">>, !.ContentEncoding = <<"b",
                "a", "s", "e", "6", "4">>]
      [] f.Typez \in MessageTypes -> ref
      [] f.Typez = "ENUM_TYPE" ->
            IF f.EnumType.nil THEN [Schema EXCEPT !.Type = <<"s", "t", "r", "i", "n", "g">>]
            ELSE [Schema EXCEPT !.Enum = f.EnumType.Values]
      [] OTHER -> [Schema EXCEPT !.Type = <<"s", "t", "r", "i", "n", "g">>]

Described(s, documentation) ==
    IF documentation # <<>> THEN [s EXCEPT !.Description = documentation] ELSE s

\* buildField; ref is what getRef returned when it was called
buildField(graph, f, ref) ==
    IF f.Map
    THEN LET value == ValueField(graph, f)
             valueSchema ==
                 IF Len(value) = 0 THEN Schema
                 ELSE Described(buildFieldType(value[1], ref), value[1].Documentation)
         IN  [Schema EXCEPT !.Type = <<"o", "b", "j", "e", "c", "t">>,
                            !.AdditionalProperties = <<valueSchema>>,
                            !.Description = f.Documentation]
    ELSE LET s == Described(buildFieldType(f, ref), f.Documentation)
         IN  IF f.Repeated
             THEN [Schema EXCEPT !.Type = <<"a", "r", "r", "a", "y">>, !.Items = <<s>>,
                                 !.Description = f.Documentation]
             ELSE s

\* the body of the loop of buildObject once buildField has returned
WithField(s, f, schema) ==
    [s EXCEPT
        !.Properties = [x \in DOMAIN s.Properties \cup {f.JSONName} |->
                           IF x = f.JSONName THEN schema ELSE s.Properties[x]],
        !.Required = IF DocumentAsRequired(f) THEN Append(s.Required, f.JSONName)
                     ELSE s.Required]

\* a call of buildObject(msg) at the head of its loop
Frame(graph, msg) ==
    [msg |-> msg, i |-> 1,
     s |-> Described([Schema EXCEPT !.Type = <<"o", "b", "j", "e", "c", "t">>], graph[msg].Documentation)]

NoWalk == [op |-> "ToJSONSchema", graph |-> EmptyMap, root |-> "nil",
           refMap |-> EmptyMap, defs |-> EmptyMap, stack |-> <<>>,
           walks |-> EmptyMap, result |-> Schema]

Top == call.stack[Len(call.stack)]
TopFields == call.graph[Top.msg].Fields
TopField == TopFields[Top.i]
InLoop == pc = "walk" /\ Top.i <= Len(TopFields)
\* getRef is called with a message that has no reference yet
FirstEncounter(f) ==
    LET calls == RefCalls(call.graph, f)
    IN  /\ Len(calls) = 1
        /\ calls[1] # "nil"
        /\ call.graph[calls[1]].ID \notin DOMAIN call.refMap
\* what getRef returns when it does not build
KnownRef(f) ==
    LET calls == RefCalls(call.graph, f)
    IN  IF Len(calls) = 1 /\ calls[1] # "nil"
        THEN [Schema EXCEPT !.Ref = call.refMap[call.graph[calls[1]].ID]]
        ELSE Schema

Stay == UNCHANGED <<in, mapping, propIdx, decomposed, usedFields, posMap, flags,
                    injectLeft, positionalArgs, script, err>>

\* ToJSONSchema up to its call of buildObject
ToJSONSchema ==
    /\ pc = "schema"
    /\ IF call.root = "nil"
       THEN call' = call /\ pc' = "done"
       ELSE /\ call' = [call EXCEPT
                           !.refMap = RecordRef(call.refMap, call.graph[call.root].ID,
                                                sRootRef),
                           !.stack = <<Frame(call.graph, call.root)>>,
                           !.walks = [call.walks EXCEPT ![call.root] = @ + 1]]
            /\ pc' = "walk"
    /\ Stay

\* one iteration of the loop of buildObject in which no message is walked
buildObject ==
    /\ InLoop
    /\ OutputOnly(TopField) \/ ~FirstEncounter(TopField)
    /\ call' = [call EXCEPT
                   !.stack[Len(call.stack)] =
                       [i |-> Top.i + 1, msg |-> Top.msg,
                        s |-> IF OutputOnly(TopField) THEN Top.s
                              ELSE WithField(Top.s, TopField,
                                             buildField(call.graph, TopField,
                                                        KnownRef(TopField)))]]
    /\ pc' = pc
    /\ Stay

\* getRef on the first encounter of a message: the reference is recorded
\* and buildObject called
getRef ==
    /\ InLoop
    /\ ~OutputOnly(TopField)
    /\ FirstEncounter(TopField)
    /\ Len(call.stack) < MaxDepth
    /\ LET msg == RefCalls(call.graph, TopField)[1]
           ref == sDefinitions \o call.graph[msg].ID
       IN  call' = [call EXCEPT
                       !.refMap = RecordRef(call.refMap, call.graph[msg].ID, ref),
                       !.stack = Append(call.stack, Frame(call.graph, msg)),
                       !.walks = [call.walks EXCEPT ![msg] = @ + 1]]
    /\ pc' = pc
    /\ Stay

\* buildObject returns to getRef, which stores the definition and returns
\* the reference to buildField; the iteration of the caller's loop ends
getRefReturn ==
    /\ pc = "walk"
    /\ Len(call.stack) > 1
    /\ Top.i > Len(TopFields)
    /\ LET caller == call.stack[Len(call.stack) - 1]
           f == call.graph[caller.msg].Fields[caller.i]
           id == call.graph[Top.msg].ID
           ref == [Schema EXCEPT !.Ref = sDefinitions \o id]
       IN  call' = [call EXCEPT
                       !.defs = StoreDef(call.defs, id, Top.s),
                       !.stack = [k \in 1..(Len(call.stack) - 1) |->
                                     IF k < Len(call.stack) - 1 THEN call.stack[k]
                                     ELSE [i |-> caller.i + 1, msg |-> caller.msg,
                                           s |-> WithField(caller.s, f,
                                                     buildField(call.graph, f, ref))]]]
    /\ pc' = pc
    /\ Stay

\* buildObject(msg) returns to ToJSONSchema
ToJSONSchemaReturn ==
    /\ pc = "walk"
    /\ Len(call.stack) = 1
    /\ Top.i > Len(TopFields)
    /\ call' = [call EXCEPT !.result = [Top.s EXCEPT !.Definitions = call.defs],
                            !.stack = <<>>]
    /\ pc' = "done"
    /\ Stay

NextSchema ==
    ToJSONSchema \/ buildObject \/ getRef \/ getRefReturn \/ ToJSONSchemaReturn


-----------------------------------------------------------------------------
(* ToJSONSchema run on bounded message graphs: a root R and two messages A *)
(* and B that refer to each other, to themselves and to the root, directly *)
(* and through map and repeated fields.                                    *)

sParentMsg == <<"P", "a", "r", "e", "n", "t", "M", "s", "g">>
sChildMsg == <<"C", "h", "i", "l", "d", "M", "s", "g">>
sOtherMsg == <<"O", "t", "h", "e", "r", "M", "s", "g">>
sDoc == <<"A", " ", "m", "a", "p", " ", "o", "f", " ", "l", "a", "b", "e", "l", "s">>

Required(f) == [f EXCEPT !.Behavior = @ \cup {"FIELD_BEHAVIOR_REQUIRED"}]
Hidden(f) == [f EXCEPT !.Behavior = @ \cup {"FIELD_BEHAVIOR_OUTPUT_ONLY"}]
Documented(f) == [f EXCEPT !.Documentation = sDoc]
Scalar(typez) == Field(<<>>, <<>>, typez, "nil")
Ref(msg) == Field(<<>>, <<>>, "MESSAGE_TYPE", msg)
EnumField ==
    [Scalar("ENUM_TYPE") EXCEPT
        !.EnumType = [nil |-> FALSE, Values |-> <<<<"U", "N", "K", "N", "O", "W", "N">>,
            <<"A", "C", "T", "I", "V", "E">>>>]]

\* the fields named by their place: f_1 with JSON name f1, f_2, ...
Placed(fields) ==
    [i \in 1..Len(fields) |->
        [fields[i] EXCEPT !.Name = <<"f", "_">> \o Itoa(i),
                          !.JSONName = <<"f">> \o Itoa(i)]]

\* the entry message of a map field whose values are of message msg, and
\* that of one whose values are strings
EntryOf(id, msg) ==
    Message(id, id, "nil",
            <<Field(sKey, <<>>, "STRING_TYPE", "nil"),
              Documented(Field(sValue, <<>>, "MESSAGE_TYPE", msg))>>, <<>>)
StringEntry ==
    Message(<<"E", "S">>, <<"E", "S">>, "nil",
            <<Field(sKey, <<>>, "STRING_TYPE", "nil"),
              Field(sValue, <<>>, "STRING_TYPE", "nil")>>, <<>>)
NoValueEntry ==
    Message(<<"E", "0">>, <<"E", "0">>, "nil", <<Field(sKey, <<>>, "STRING_TYPE", "nil")>>, <<>>)

Pointers == {"R", "A", "B", "ER", "EA", "EB", "ES", "E0"}

RootKinds ==
    {Required(Scalar("STRING_TYPE")), Required(Hidden(Ref("B"))), Ref("A"), Ref("R"),
     MapField(Ref("EB")), RepeatedField(Ref("B"))}
AFields ==
    {<<>>, <<Ref("B")>>, <<Ref("R")>>, <<Ref("A"), Required(Scalar("INT32_TYPE"))>>,
     <<Hidden(Ref("B")), Documented(Scalar("BOOL_TYPE"))>>,
     <<EnumField, Ref("nil")>>}
BFields ==
    {<<>>, <<Ref("A")>>, <<MapField(Ref("ER"))>>,
     <<Required(Scalar("DOUBLE_TYPE")), Scalar("BYTES_TYPE")>>,
     <<MapField(Ref("ES")), MapField(Ref("E0"))>>}

SeqsUpTo(S, n) == UNION {[1..k -> S] : k \in 0..n}

MessageGraph(rootFields, aFields, bFields, bID) ==
    [p \in Pointers |->
        CASE p = "R" -> [Message(sParentMsg, sParentMsg, "nil", Placed(rootFields), <<>>)
                            EXCEPT !.Documentation = sDoc]
          [] p = "A" -> Message(sChildMsg, sChildMsg, "nil", Placed(aFields), <<>>)
          [] p = "B" -> Message(bID, bID, "nil", Placed(bFields), <<>>)
          [] p = "ER" -> EntryOf(<<"E", "R">>, "R")
          [] p = "EA" -> EntryOf(<<"E", "A">>, "A")
          [] p = "EB" -> EntryOf(<<"E", "B">>, "B")
          [] p = "ES" -> StringEntry
          [] OTHER -> NoValueEntry]

\* the graphs: in some of them B has the ID of A
MessageGraphs ==
    {MessageGraph(r, a, b, id) :
        r \in SeqsUpTo(RootKinds, MaxFields), a \in AFields, b \in BFields,
        id \in {sOtherMsg, sChildMsg}}

InitSchema ==
    /\ Blank
    /\ in = NoInput
    /\ pc = "schema"
    /\ call \in {[NoWalk EXCEPT !.walks = [p \in Pointers |-> 0]]}
                \cup {[NoWalk EXCEPT !.graph = g, !.root = "R",
                                     !.walks = [p \in Pointers |-> 0]] :
                         g \in MessageGraphs}

SpecSchema == InitSchema /\ [][NextSchema]_vars

\* a call that is made runs to its end
SpecSchemaFair == SpecSchema /\ WF_vars(NextSchema)


-----------------------------------------------------------------------------
(* Claims about ToJSONSchema. *)

Exported == pc = "done" /\ call.op = "ToJSONSchema" /\ call.root # "nil"
Result == call.result
IDOf(p) == call.graph[p].ID
RootID == IDOf(call.root)

\* the message a field refers to: its message type, or for a map field the
\* message type of the value field of its entry message; "nil" when none
RefersTo(f) ==
    IF f.Map
    THEN IF f.MessageType = "nil" THEN "nil"
         ELSE LET values == SelectSeq(call.graph[f.MessageType].Fields,
                                      LAMBDA v : v.Name = sValue)
              IN  IF Len(values) > 0 /\ values[1].Typez \in MessageTypes
                  THEN values[1].MessageType
                  ELSE "nil"
    ELSE IF f.Typez \in MessageTypes THEN f.MessageType ELSE "nil"

\* the non-output-only fields of a message
Visible(p) ==
    SelectSeq(call.graph[p].Fields,
              LAMBDA f : "FIELD_BEHAVIOR_OUTPUT_ONLY" \notin f.Behavior)
RefersFrom(p) == {RefersTo(Visible(p)[i]) : i \in 1..Len(Visible(p))} \ {"nil"}

\* the messages reachable from the root
RECURSIVE ReachFrom(_)
ReachFrom(S) ==
    LET T == S \cup UNION {RefersFrom(p) : p \in S}
    IN  IF T = S THEN S ELSE ReachFrom(T)
Reachable == ReachFrom({call.root})

UniqueIDs == \A p, q \in Pointers : p # q => IDOf(p) # IDOf(q)

\* the $ref of the schema of a field: its own, that of the items of an
\* array, that of the values of a map
RefOf(s) ==
    IF Len(s.Items) = 1 THEN s.Items[1].Ref
    ELSE IF Len(s.AdditionalProperties) = 1 THEN s.AdditionalProperties[1].Ref
    ELSE s.Ref
RefsIn(object) ==
    {RefOf(object.Properties[k]) : k \in DOMAIN object.Properties} \ {<<>>}
\* every $ref of the result
AllRefs ==
    RefsIn(Result)
    \cup UNION {RefsIn(Result.Definitions[id]) : id \in DOMAIN Result.Definitions}

\* the object schemas of the result and the message each was built from
Walked(p) == call.walks[p] > 0
ObjectOf(p) == IF p = call.root THEN Result ELSE Result.Definitions[IDOf(p)]

RootRefIsHash ==
    Exported =>
        /\ RootID \notin DOMAIN Result.Definitions
        /\ \A p \in Pointers :
              Walked(p) =>
                 \A i \in 1..Len(Visible(p)) :
                    LET f == Visible(p)[i]
                    IN  RefersTo(f) = call.root =>
                           RefOf(ObjectOf(p).Properties[f.JSONName]) = sRootRef

\* C17: ToJSONSchema returns on every message graph, with self-references
\* and longer cycles; a field whose message type is the root is emitted as
\* $ref "#", and the root has no entry in the definitions.
C17_TerminatesOnCycles == <>(pc = "done") /\ []RootRefIsHash

\* C17 witness: the root refers to itself and to A, A and B refer to each
\* other, and the export has returned
C17_Witness ==
    /\ Exported
    /\ \E i \in 1..Len(Visible(call.root)) : RefersTo(Visible(call.root)[i]) = call.root
    /\ "B" \in RefersFrom("A") /\ "A" \in RefersFrom("B")
    /\ sRootRef \in RefsIn(Result)
    /\ DOMAIN Result.Definitions = {sChildMsg, sOtherMsg}

\* C18: on a graph with unique message IDs no message is walked twice, and
\* when the export has returned the definitions hold one entry, keyed by
\* ID, for each message other than the root that is reachable from the root
\* through non-output-only message-typed fields (map value fields
\* included), none for the root, and every $ref of the result is "#" or
\* "#/definitions/<ID>" for an ID that has an entry.
C18_DefinitionsAreTheReachable ==
    (call.op = "ToJSONSchema" /\ call.root # "nil" /\ UniqueIDs) =>
        /\ \A p \in Pointers : call.walks[p] <= 1
        /\ Exported =>
              /\ DOMAIN Result.Definitions = {IDOf(p) : p \in Reachable \ {call.root}}
              /\ Cardinality(DOMAIN Result.Definitions)
                    = Cardinality(Reachable \ {call.root})
              /\ RootID \notin DOMAIN Result.Definitions
              /\ \A p \in Pointers : Walked(p) <=> p \in Reachable
              /\ AllRefs \subseteq
                    {sRootRef} \cup {sDefinitions \o id : id \in DOMAIN Result.Definitions}

\* C18 witness: B is reached through a repeated field of the root, which
\* also has an output-only field of type B, A is reached through B and
\* refers back to the root, and the definitions hold A and B
C18_Witness ==
    /\ Exported
    /\ UniqueIDs
    /\ Reachable = {"R", "A", "B"}
    /\ \E i \in 1..Len(call.graph["R"].Fields) :
          LET f == call.graph["R"].Fields[i]
          IN  "FIELD_BEHAVIOR_OUTPUT_ONLY" \in f.Behavior /\ f.MessageType = "B"
    /\ \E i \in 1..Len(call.graph["R"].Fields) :
          call.graph["R"].Fields[i].Repeated
    /\ \E i \in 1..Len(call.graph["A"].Fields) :
          RefersTo(call.graph["A"].Fields[i]) = "R"
    /\ DOMAIN Result.Definitions = {sChildMsg, sOtherMsg}
    /\ AllRefs = {sRootRef, sDefinitions \o sChildMsg, sDefinitions \o sOtherMsg}

\* the fields marked required among the non-output-only fields
MarkedRequired(p) ==
    SelectSeq(Visible(p), LAMBDA f : "FIELD_BEHAVIOR_REQUIRED" \in f.Behavior)
JSONNames(fields) == {fields[i].JSONName : i \in 1..Len(fields)}

\* the schema under a property is that of the field: an object for a map,
\* an array for a repeated field, a reference for a message
IsSchemaOf(s, f) ==
    IF f.Map THEN s.Type = <<"o", "b", "j", "e", "c", "t">> /\ Len(s.AdditionalProperties) = 1
    ELSE IF f.Repeated THEN s.Type = <<"a", "r", "r", "a", "y">> /\ Len(s.Items) = 1
    ELSE IF f.Typez \in MessageTypes THEN (s.Ref # <<>>) <=> (f.MessageType # "nil")
    ELSE IF f.Typez = "ENUM_TYPE" THEN s.Enum = f.EnumType.Values
    ELSE s.Type = (CASE f.Typez \in {"DOUBLE_TYPE", "FLOAT_TYPE"} -> <<"n", "u", "m",
        "b", "e", "r">>
                     [] f.Typez = "BOOL_TYPE" -> <<"b", "o", "o", "l", "e", "a", "n">>
                     [] f.Typez \in {"STRING_TYPE", "BYTES_TYPE"} -> <<"s", "t", "r",
                         "i", "n", "g">>
                     [] OTHER -> <<"i", "n", "t", "e", "g", "e", "r">>)

\* C19: in the root schema and in every definition the properties are the
\* message's non-output-only fields keyed by JSON name, and the required
\* list holds the JSON names of the non-output-only fields marked required,
\* each once; so every required name is a property and an output-only field
\* is neither a property nor required.
C19_PropertiesAndRequired ==
    Exported =>
        \A p \in Pointers :
           Walked(p) =>
              LET object == ObjectOf(p)
              IN  /\ object.Type = <<"o", "b", "j", "e", "c", "t">>
                  /\ DOMAIN object.Properties = JSONNames(Visible(p))
                  /\ \A i \in 1..Len(Visible(p)) :
                        IsSchemaOf(object.Properties[Visible(p)[i].JSONName],
                                   Visible(p)[i])
                  /\ Range(object.Required) = JSONNames(MarkedRequired(p))
                  /\ Len(object.Required) = Len(MarkedRequired(p))
                  /\ Range(object.Required) \subseteq DOMAIN object.Properties

\* C19 witness: the root has a required field and a field that is both
\* output-only and required; only the first is a property and required
C19_Witness ==
    /\ Exported
    /\ Len(call.graph["R"].Fields) = 2
    /\ call.graph["R"].Fields[1].Behavior
          = {"FIELD_BEHAVIOR_OUTPUT_ONLY", "FIELD_BEHAVIOR_REQUIRED"}
    /\ call.graph["R"].Fields[2].Behavior = {"FIELD_BEHAVIOR_REQUIRED"}
    /\ DOMAIN Result.Properties = {<<"f", "2">>}
    /\ Result.Required = <<<<"f", "2">>>>


-----------------------------------------------------------------------------
(* The curl target: GenerateCurl.  The request is decoded by encoding/json *)
(* into a map[string]any; a failed type assertion, an index out of range   *)
(* and a nil dereference end the run in a panic.                           *)

\* api.PathBinding as GenerateCurl reads it
CurlBinding(verb, segments, queryParameters) ==
    [Verb |-> verb, PathTemplate |-> [Segments |-> segments],
     QueryParameters |-> queryParameters]
\* api.Method with its input type and the host of its service
CurlMethod(bindings, fields) ==
    [nil |-> FALSE, PathInfo |-> [nil |-> FALSE, Bindings |-> bindings],
     InputType |-> [Fields |-> fields], Service |-> [DefaultHost |-> <<"e", "x", "a",
         "m", "p", "l", "e", ".", "c", "o", "m">>]]

\* language.PathParams: the fields of the input type that the variables of
\* the first binding name
PathParams(method) ==
    LET segments == method.PathInfo.Bindings[1].PathTemplate.Segments
        named == {segments[k].Variable.FieldPath[1] :
                     k \in {j \in 1..Len(segments) :
                               /\ ~segments[j].Variable.nil
                               /\ Len(segments[j].Variable.FieldPath) > 0}}
    IN  SelectSeq(method.InputType.Fields, LAMBDA f : f.Name \in named)
\* language.QueryParams: the fields of the input type that the binding
\* sends as query parameters
QueryParams(method, binding) ==
    SelectSeq(method.InputType.Fields, LAMBDA f : f.Name \in binding.QueryParameters)
\* api.Field.NameEqualJSONName
NameEqualJSONName(f) == f.Name = f.JSONName

\* the string of a JSON document as encoding/json writes it
JSONEscape(s) ==
    Join([i \in 1..Len(s) |->
             CASE s[i] = "\"" -> <<"\\", "\"">>
               [] s[i] = "\\" -> <<"\\", "\\">>
               [] s[i] = "\n" -> <<"\\", "n">>
               [] s[i] = "<" -> <<"\\", "u", "0", "0", "3", "c">>
               [] s[i] = ">" -> <<"\\", "u", "0", "0", "3", "e">>
               [] s[i] = "&" -> <<"\\", "u", "0", "0", "2", "6">>
               [] OTHER -> <<s[i]>>], <<>>)

\* json.Marshal of a decoded value; the keys of an object ascending.  A
\* float64 is written without exponent, as it is below 1e21
RECURSIVE Marshal(_)
Marshal(val) ==
    CASE val.kind = "nil" -> <<"n", "u", "l", "l">>
      [] val.kind = "string" -> <<"\"">> \o JSONEscape(val.str) \o <<"\"">>
      [] val.kind = "bool" -> val.str
      [] val.kind = "float64" ->
            (IF val.neg /\ ~IsZero(val) THEN <<"-">> ELSE <<>>) \o val.str
            \o (IF StripTrailingZeros(val.frac) # <<>>
                THEN <<".">> \o StripTrailingZeros(val.frac) ELSE <<>>)
      [] val.kind = "slice" ->
            <<"[">> \o Join([i \in 1..Len(val.items) |-> Marshal(val.items[i])], <<",">>)
            \o <<"]">>
      [] OTHER ->
            LET keys == SortedKeys(DOMAIN val.m)
            IN  <<"{">>
                \o Join([i \in 1..Len(keys) |->
                            <<"\"">> \o JSONEscape(keys[i]) \o <<"\"", ":">>
                            \o Marshal(val.m[keys[i]])], <<",">>)
                \o <<"}">>

\* the number a decimal digit stands for
DigitOf(c) == (CHOOSE i \in 1..10 : DigitChars[i] = c) - 1

\* the decimal numeral one above and one below a positive numeral
RECURSIVE Successor(_)
Successor(d) ==
    IF Len(d) = 0 THEN <<"1">>
    ELSE IF d[Len(d)] = "9" THEN Successor(SubSeq(d, 1, Len(d) - 1)) \o <<"0">>
    ELSE SubSeq(d, 1, Len(d) - 1) \o <<DigitChars[DigitOf(d[Len(d)]) + 2]>>
RECURSIVE Predecessor(_)
Predecessor(d) ==
    IF d[Len(d)] = "0" THEN Predecessor(SubSeq(d, 1, Len(d) - 1)) \o <<"9">>
    ELSE SubSeq(d, 1, Len(d) - 1) \o <<DigitChars[DigitOf(d[Len(d)])]>>

\* 2^53 and 2^54: up to the first every whole number is a float64, between
\* them every second one
TwoTo53 == <<"9", "0", "0", "7", "1", "9", "9", "2", "5", "4", "7", "4", "0", "9", "9", "2">>
TwoTo54 == <<"1", "8", "0", "1", "4", "3", "9", "8", "5", "0", "9", "4", "8", "1", "9",
    "8", "4">>

\* the float64 that json.Unmarshal stores for a number of the document: the
\* nearest one, the one with the even mantissa on a tie.  Numbers of the
\* document have at most 15 significant digits or are whole and below 2^54
Float64(val) ==
    LET d == val.str
        odd == DigitOf(d[Len(d)]) % 2 = 1
        up == Successor(d)
        upIsEven == (10 * DigitOf(up[Len(up) - 1]) + DigitOf(up[Len(up)])) % 4 = 0
    IN  IF /\ StripTrailingZeros(val.frac) = <<>>
           /\ ~DecLessEq(d, TwoTo53)
           /\ DecLessEq(d, TwoTo54)
           /\ odd
        THEN [val EXCEPT !.str = IF upIsEven THEN up ELSE Predecessor(d)]
        ELSE val

\* json.Unmarshal into an any: the decoded value of a value of the document
RECURSIVE Unmarshal(_)
Unmarshal(val) ==
    CASE val.kind = "float64" -> Float64(val)
      [] val.kind = "slice" ->
            [val EXCEPT !.items = [i \in 1..Len(val.items) |-> Unmarshal(val.items[i])]]
      [] val.kind = "map" ->
            [val EXCEPT !.m = [k \in DOMAIN val.m |-> Unmarshal(val.m[k])]]
      [] OTHER -> val

\* the loop over the segments of the binding: the path so far, or a panic
\* when data[fieldPath] is not a string
PathOf(path, data, fieldPath) ==
    IF fieldPath \in DOMAIN data /\ data[fieldPath].kind = "string"
    THEN [panic |-> FALSE, path |-> path \o <<"/">> \o data[fieldPath].str]
    ELSE [panic |-> TRUE, path |-> path]

RECURSIVE FieldPathLoop(_, _, _)
FieldPathLoop(acc, data, fieldPath) ==
    IF acc.panic \/ Len(fieldPath) = 0 THEN acc
    ELSE FieldPathLoop(PathOf(acc.path, data, fieldPath[1]), data, Tail(fieldPath))

RECURSIVE SegmentLoop(_, _, _)
SegmentLoop(acc, data, segments) ==
    IF acc.panic \/ Len(segments) = 0 THEN acc
    ELSE LET segment == segments[1]
             literal == IF segment.Variable.nil
                        THEN [acc EXCEPT !.path = @ \o <<"/">> \o segment.Literal]
                        ELSE acc
             variable == IF segment.Variable.nil THEN literal
                         ELSE FieldPathLoop(literal, data, segment.Variable.FieldPath)
         IN  SegmentLoop(variable, data, Tail(segments))

\* delete(data, param.Name) for each of the parameters
Deleted(data, params) ==
    [k \in DOMAIN data \ {params[i].Name : i \in 1..Len(params)} |-> data[k]]

\* the value of a query parameter: data[param.Name], nil when absent
QueryValue(data, name) == IF name \in DOMAIN data THEN data[name] ELSE GoNil

\* curlData as GenerateCurl fills it from the request document
CurlData(method, reqData) ==
    LET data == Unmarshal(GoMap(reqData)).m
        binding == method.PathInfo.Bindings[1]
        pp == PathParams(method)
        query == QueryParams(method, binding)
        walked == SegmentLoop([panic |-> FALSE, path |-> <<>>], data,
                              binding.PathTemplate.Segments)
        left == Deleted(data, pp)
        params == [i \in 1..Len(query) |->
                      [Name |-> IF NameEqualJSONName(query[i]) THEN query[i].Name
                                ELSE query[i].JSONName,
                       Value |-> QueryValue(left, query[i].Name)]]
        rest == Deleted(left, query)
    IN  [panic |-> walked.panic,
         cr |-> [Verb |-> binding.Verb, Host |-> method.Service.DefaultHost,
                 Path |-> walked.path,
                 Body |-> IF DOMAIN rest # {} THEN Marshal(GoMap(rest)) ELSE <<>>,
                 QueryParameters |-> params]]

NoCurlData == [Verb |-> <<>>, Host |-> <<>>, Path |-> <<>>, Body |-> <<>>,
               QueryParameters |-> <<>>]

\* GenerateCurl: curl.sh is written with the rendered curlData, or an error
\* is returned, or the run panics
GenerateCurl ==
    /\ pc = "curl"
    /\ LET method == call.method
           noBinding == method.nil \/ method.PathInfo.nil
                        \/ Len(method.PathInfo.Bindings) = 0
       IN  IF noBinding
           THEN /\ pc' = "panicked"
                /\ call' = call
                /\ err' = err
           ELSE IF ~call.wellFormed
           THEN /\ pc' = "returned"
                /\ call' = call
                /\ err' = "json.Unmarshal"
           ELSE LET made == CurlData(method, call.data)
                IN  IF made.panic
                    THEN /\ pc' = "panicked"
                         /\ call' = call
                         /\ err' = err
                    ELSE /\ pc' = "returned"
                         /\ call' = [call EXCEPT !.written = TRUE, !.cr = made.cr]
                         /\ err' = err
    /\ UNCHANGED <<in, mapping, propIdx, decomposed, usedFields, posMap, flags,
                   injectLeft, positionalArgs, script>>

-----------------------------------------------------------------------------
(* GenerateCurl run on bounded methods and requests. *)

sBaz == <<"b", "a", "z">>
sBook == <<"b", "o", "o", "k">>
sShelves == <<"s", "h", "e", "l", "v", "e", "s">>
sPageSize == <<"p", "a", "g", "e", "_", "s", "i", "z", "e">>
sPageSizeJSON == <<"p", "a", "g", "e", "S", "i", "z", "e">>
sGet == <<"G", "E", "T">>
sPost == <<"P", "O", "S", "T">>

\* the input type of the method
CurlFields ==
    <<Field(sFoo, sFoo, "STRING_TYPE", "nil"), Field(sBaz, sBaz, "STRING_TYPE", "nil"),
      Field(sBook, sBook, "MESSAGE_TYPE", "nil"),
      Field(sPageSize, sPageSizeJSON, "INT32_TYPE", "nil")>>

\* the bindings: /v1/{foo}, /v1/shelves/{foo}/{baz}, /v1/{book.name},
\* /{baz}/v1 and the empty path
CurlBindings ==
    {CurlBinding(sGet, <<LiteralSegment(sV1), VariableSegment(<<sFoo>>, <<>>)>>,
                 {sPageSize}),
     CurlBinding(sPost, <<LiteralSegment(sV1), LiteralSegment(sShelves),
                          VariableSegment(<<sFoo>>, <<>>),
                          VariableSegment(<<sBaz>>, <<>>)>>, {}),
     CurlBinding(sPost, <<LiteralSegment(sV1),
                          VariableSegment(<<sBook, sName>>, <<>>)>>, {}),
     CurlBinding(sGet, <<VariableSegment(<<sBaz>>, <<>>), LiteralSegment(sV1)>>,
                 {sBaz}),
     CurlBinding(sGet, <<>>, {})}

CurlMethods ==
    {NilMethod, MethodNoPathInfo}
    \cup {CurlMethod(bindings, CurlFields) :
             bindings \in SeqsUpTo(CurlBindings, MaxBindings)}

\* 2^53 + 1, a whole number that no float64 holds
sBigID == Successor(TwoTo53)

CurlValues ==
    {GoString(sBar), GoString(sQux), Whole(<<"4", "2">>), Whole(sBigID),
     GoMap(Map1(sName, GoString(sBar)))}
CurlRequests == DataOver({sFoo, sBaz, sBook, sName, sPageSize}, CurlValues)

\* the calls of GenerateCurl on some methods: on every request, and on a
\* buffer that is not JSON
CurlCalls(methods) ==
    {[op |-> "GenerateCurl", method |-> m, wellFormed |-> TRUE,
      data |-> d, written |-> FALSE, cr |-> NoCurlData] :
         m \in methods, d \in CurlRequests}
    \cup {[op |-> "GenerateCurl", method |-> m, wellFormed |-> FALSE,
           data |-> EmptyMap, written |-> FALSE, cr |-> NoCurlData] :
             m \in methods}

InitCurl ==
    /\ Blank
    /\ in = NoInput
    /\ pc = "curl"
    /\ call \in CurlCalls(CurlMethods)

NextCurl == GenerateCurl

SpecCurl == InitCurl /\ [][NextCurl]_vars


-----------------------------------------------------------------------------
(* Claims about GenerateCurl. *)

\* the request's value of the field a field path names, nil when absent
RECURSIVE NestedValue(_, _)
NestedValue(val, fieldPath) ==
    IF Len(fieldPath) = 0 THEN val
    ELSE IF val.kind = "map" /\ fieldPath[1] \in DOMAIN val.m
    THEN NestedValue(val.m[fieldPath[1]], Tail(fieldPath))
    ELSE GoNil

HasBinding ==
    /\ ~call.method.nil
    /\ ~call.method.PathInfo.nil
    /\ Len(call.method.PathInfo.Bindings) > 0
FirstSegments == call.method.PathInfo.Bindings[1].PathTemplate.Segments
NamedValue(segment) == NestedValue(GoMap(call.data), segment.Variable.FieldPath)

\* every variable of the first binding names a field of the request that
\* holds a string
PathValuesGiven ==
    \A k \in 1..Len(FirstSegments) :
       ~FirstSegments[k].Variable.nil => NamedValue(FirstSegments[k]).kind = "string"

\* "/" and the literal, or "/" and the value of the named field, for each
\* segment in order
ClaimedPath ==
    Join([k \in 1..Len(FirstSegments) |->
             <<"/">> \o (IF FirstSegments[k].Variable.nil THEN FirstSegments[k].Literal
                         ELSE NamedValue(FirstSegments[k]).str)], <<>>)

\* the method with its first binding only
FirstBindingOnly ==
    [call.method EXCEPT !.PathInfo.Bindings = <<call.method.PathInfo.Bindings[1]>>]

\* C20: GenerateCurl, run on a well-formed request that holds a string for
\* every variable of the first binding, writes the path that is the
\* concatenation, in segment order, of "/" and the literal for each literal
\* segment and "/" and the request's value of the named field for each
\* variable segment; what it writes is what it writes for the first binding
\* alone.
C20_PathOfFirstBinding ==
    (call.op = "GenerateCurl" /\ pc # "curl" /\ HasBinding /\ call.wellFormed
     /\ PathValuesGiven) =>
        /\ pc = "returned"
        /\ call.written
        /\ call.cr.Path = ClaimedPath
        /\ call.cr = CurlData(FirstBindingOnly, call.data).cr


\* the fields of the request that GenerateCurl consumes as path parameters
\* and as query parameters
Consumed ==
    LET binding == call.method.PathInfo.Bindings[1]
        pp == PathParams(call.method)
        query == QueryParams(call.method, binding)
    IN  {pp[i].Name : i \in 1..Len(pp)} \cup {query[i].Name : i \in 1..Len(query)}

\* the fields of the request that are not consumed, with the values the
\* request gives them
Remaining == [k \in DOMAIN call.data \ Consumed |-> call.data[k]]

\* C21: when GenerateCurl writes curl.sh, the body is the JSON serialization
\* of exactly the top-level request fields that were not consumed as path
\* parameters or query parameters, each with the value the request gives
\* it; when no field remains the body is empty.
C21_BodyIsTheRemainingFields ==
    (call.op = "GenerateCurl" /\ pc = "returned" /\ call.written) =>
        call.cr.Body = (IF DOMAIN Remaining = {} THEN <<>>
                        ELSE Marshal(GoMap(Remaining)))


\* the method has path information and no binding
NoPathBindings ==
    /\ ~call.method.nil
    /\ ~call.method.PathInfo.nil
    /\ Len(call.method.PathInfo.Bindings) = 0

\* C24: GenerateCurl, run on a method with no path bindings, or on a
\* well-formed request that lacks the field named by a path variable of the
\* first binding or holds a value there that is not a string, returns an
\* error to its caller: it does not panic and writes no curl.sh.
C24_CurlFailureIsReturned ==
    (/\ call.op = "GenerateCurl"
     /\ pc # "curl"
     /\ \/ NoPathBindings
        \/ (HasBinding /\ call.wellFormed /\ ~PathValuesGiven)) =>
        /\ pc = "returned"
        /\ err # "nil"
        /\ ~call.written


-----------------------------------------------------------------------------
(* The Go target: GenerateGo.  What BUILD.bazel holds, whether the request *)
(* is JSON, whether the template renders, whether the rendered text is Go  *)
(* that format.Source accepts and whether main.go can be written are given *)
(* with the call.                                                          *)

\* main.go in the output directory
NoMainGo == [written |-> FALSE, formatted |-> FALSE, RequestName |-> <<>>,
             RequestInit |-> <<>>]
\* tmpl.Render(goData): the text of the file, known by what it is made from
RenderGoData(schema, msg, reqInit) ==
    [written |-> FALSE, formatted |-> FALSE, RequestName |-> schema[msg].Name,
     RequestInit |-> FieldNodeRender(reqInit)]
\* format.Source of a text it accepts
FormatSource(s) == [s EXCEPT !.formatted = TRUE]
\* mutant: the text is given up when it cannot be formatted
WriteFileNever(s) == NoMainGo
\* os.WriteFile(filepath.Join(in.OutDir, "main.go"), ...)
WriteFile(s) == [s EXCEPT !.written = TRUE]

GenerateGo ==
    /\ pc = "go"
    /\ \E order \in KeyOrders :
          LET reqInit == buildRequestInit(GoSchema, call.msg, call.data, call.protoPkg,
                                          [order |-> order, oor |-> call.oor])
              s == RenderGoData(GoSchema, call.msg, reqInit)
          IN  IF call.bazel = "unreadable"
              THEN /\ pc' = "returned"
                   /\ err' = "failed to read BUILD.bazel file"
                   /\ call' = call
              ELSE IF ~call.wellFormed
              THEN /\ pc' = "returned"
                   /\ err' = "json.Unmarshal"
                   /\ call' = call
              ELSE IF call.bazel = "noPackage"
              THEN /\ pc' = "panicked"
                   /\ err' = err
                   /\ call' = call
              ELSE IF ~call.renders
              THEN /\ pc' = "returned"
                   /\ err' = "mustache"
                   /\ call' = call
              ELSE IF ~call.formats
              THEN /\ pc' = "returned"
                   /\ IF call.writable
                      THEN /\ err' = "formatting failed"
                           /\ call' = [call EXCEPT !.s = s, !.mainGo = WriteFile(s)]
                      ELSE /\ err' = "os.WriteFile"
                           /\ call' = [call EXCEPT !.s = s]
              ELSE /\ pc' = "returned"
                   /\ IF call.writable
                      THEN /\ err' = err
                           /\ call' = [call EXCEPT !.s = s,
                                                   !.mainGo = WriteFile(FormatSource(s))]
                      ELSE /\ err' = "os.WriteFile"
                           /\ call' = [call EXCEPT !.s = s]
    /\ UNCHANGED <<in, mapping, propIdx, decomposed, usedFields, posMap, flags,
                   injectLeft, positionalArgs, script>>

\* the gapic import path of BUILD.bazel: not to be read, without the
\* package name after ";", or complete
BazelConfigs == {"unreadable", "noPackage", "ok"}

\* the requests of GenerateGo
GenerateGoInputs == {c \in GoInputs : c.msg \in {"MapMsg", "MsgWithOneOf"}}

GenerateGoCalls ==
    UNION {{[op |-> "GenerateGo", bazel |-> b, wellFormed |-> TRUE, msg |-> c.msg,
             data |-> d, protoPkg |-> c.protoPkg, oor |-> 1, renders |-> r,
             formats |-> f, writable |-> w, s |-> NoMainGo, mainGo |-> NoMainGo] :
                d \in DataOver(c.keys, c.values), b \in BazelConfigs,
                r \in BOOLEAN, f \in BOOLEAN, w \in BOOLEAN} : c \in GenerateGoInputs}
    \cup {[op |-> "GenerateGo", bazel |-> b, wellFormed |-> FALSE, msg |-> c.msg,
           data |-> EmptyMap, protoPkg |-> c.protoPkg, oor |-> 1, renders |-> r,
           formats |-> f, writable |-> w, s |-> NoMainGo, mainGo |-> NoMainGo] :
              c \in GenerateGoInputs, b \in BazelConfigs,
              r \in BOOLEAN, f \in BOOLEAN, w \in BOOLEAN}

InitGenerateGo ==
    /\ Blank
    /\ in = NoInput
    /\ pc = "go"
    /\ call \in GenerateGoCalls

NextGenerateGo == GenerateGo

SpecGenerateGo == InitGenerateGo /\ [][NextGenerateGo]_vars

-----------------------------------------------------------------------------
(* Claims about GenerateGo. *)

\* GenerateGo returned after the template was rendered
RenderedGo ==
    /\ call.op = "GenerateGo"
    /\ pc = "returned"
    /\ call.s # NoMainGo

\* main.go is there and holds the rendered text, formatted or as rendered
MainGoHolds(formatted) ==
    /\ call.mainGo.written
    /\ call.mainGo.formatted = formatted
    /\ call.mainGo.RequestName = call.s.RequestName
    /\ call.mainGo.RequestInit = call.s.RequestInit

\* C22 as stated: after a successful render main.go is written in either
\* case, with the unformatted text and a formatting error when formatting
\* fails, with the formatted text and no error when it succeeds.
C22_AlwaysWritten ==
    RenderedGo =>
        IF call.formats
        THEN MainGoHolds(TRUE) /\ err = "nil"
        ELSE MainGoHolds(FALSE) /\ err = "formatting failed"

\* C22: after a successful render, when main.go can be written it holds the
\* unformatted text and a formatting error is returned if formatting fails,
\* and the formatted text and no error is returned if formatting succeeds;
\* when main.go cannot be written the write error is returned in both cases
\* and there is no file.
C22_WrittenUnlessWriteFails ==
    RenderedGo =>
        IF ~call.writable
        THEN ~call.mainGo.written /\ err = "os.WriteFile"
        ELSE IF call.formats
        THEN MainGoHolds(TRUE) /\ err = "nil"
        ELSE MainGoHolds(FALSE) /\ err = "formatting failed"

\* C22 witness: the rendered text could not be formatted, main.go holds it
\* unformatted and the formatting error is returned
C22_Witness ==
    /\ RenderedGo
    /\ ~call.formats
    /\ MainGoHolds(FALSE)
    /\ Len(call.s.RequestInit) > 0
    /\ err = "formatting failed"


-----------------------------------------------------------------------------
(* The three emitters run on requests that are JSON and on buffers that    *)
(* are not.  gjson does not check the text it reads: a buffer that is not  *)
(* JSON is known by the document gjson makes of it.                        *)

\* a request buffer that is not well-formed JSON, read by gjson as d
Malformed(d) == [doc |-> d.doc, spaced |-> d.spaced, malformed |-> TRUE]
IsMalformed(d) == "malformed" \in DOMAIN d

EmitMappingFiles == {f \in MappingFiles : Len(f.content.Properties) <= 1}
EmitCases ==
    {c \in GcloudCases : c.Method \in {Method(<<>>), Method(<<bProjects>>)}}

InitEmitGcloud ==
    /\ Blank
    /\ call = NoCall
    /\ pc = "read"
    /\ in \in UNION {{[ReqData |-> GcloudRequest(c.parent), Method |-> c.Method,
                       MappingFile |-> f],
                      [ReqData |-> Malformed(GcloudRequest(c.parent)),
                       Method |-> c.Method, MappingFile |-> f]} :
                         c \in EmitCases, f \in EmitMappingFiles}

InitEmitGo ==
    /\ Blank
    /\ in = NoInput
    /\ pc = "go"
    /\ call \in {c \in GenerateGoCalls : c.msg = "MsgWithOneOf"}

InitEmitCurl ==
    /\ Blank
    /\ in = NoInput
    /\ pc = "curl"
    /\ call \in CurlCalls({m \in CurlMethods : m.nil \/ Len(m.PathInfo.Bindings) <= 1})

InitEmit == InitEmitGo \/ InitEmitCurl \/ InitEmitGcloud

NextEmit == GenerateGo \/ GenerateCurl \/ Next

SpecEmit == InitEmit /\ [][NextEmit]_vars

-----------------------------------------------------------------------------
(* Claims about the input errors of the emitters. *)

\* GenerateGcloud has ended
GcloudDone == call.op = "none" /\ pc = "done"

\* C23: an emitter run on a request buffer that is not well-formed JSON,
\* and GenerateGcloud run on a mapping file that cannot be read or is not
\* well-formed, returns an error to its caller and writes no output file.
C23_InputFormatErrorIsFatal ==
    /\ (call.op = "GenerateGo" /\ pc # "go" /\ ~call.wellFormed) =>
          (pc = "returned" /\ err # "nil" /\ ~call.mainGo.written)
    /\ (call.op = "GenerateCurl" /\ pc # "curl" /\ ~call.wellFormed) =>
          (pc = "returned" /\ err # "nil" /\ ~call.written)
    /\ (GcloudDone /\ (IsMalformed(in.ReqData) \/ ~in.MappingFile.readable
                       \/ ~in.MappingFile.wellFormed)) =>
          (err # "nil" /\ ~script.written)


-----------------------------------------------------------------------------
(* Further claims about buildRequestInit. *)

\* the oneof groups of the message
GroupNames ==
    {GoFields[i].Group.Name : i \in {j \in 1..Len(GoFields) : InOneOf(GoFields[j])}}

\* the children of the root that wrap a field of a oneof group
WrappersOf(group) ==
    {i \in 1..Len(Root.Children) :
        /\ Root.Children[i].Name = Pascal(group)
        /\ \E j \in 1..Len(GoFields) :
              /\ InOneOf(GoFields[j])
              /\ GoFields[j].Group.Name = group
              /\ Root.Children[i].TypeName = WrapperTypeName(GoFields[j])}

\* C28: the message node built for a message with oneof groups has at most
\* one wrapper child per oneof group, whatever the JSON object holds, and
\* the rendered Go literal names each group at most once.
C28_OneWrapperPerGroup ==
    Built1 =>
        \A group \in GroupNames :
           /\ Cardinality(WrappersOf(group)) <= 1
           /\ Occurrences(<<"\n">> \o Pascal(group) \o <<":", " ">>, call.texts[1]) <= 1


-----------------------------------------------------------------------------
(* buildRequestInit as the calls it makes: one frame per invocation that   *)
(* has not returned, each with the recursive calls its loop over the       *)
(* fields has still to make.                                               *)

\* the deepest stack the walk is followed to
MaxStack == 6

\* mutant: the message type alone decides whether the builder descends
HasSubDataAlways(val) == TRUE
\* subData, ok := val.(map[string]any)
HasSubData(val) == val.kind = "map"

\* the recursive calls of one iteration of the loop over msg.Fields, in the
\* order they are made
FieldCalls(schema, field, data, order) ==
    LET named == field.Name \in DOMAIN data
        ok == named \/ (field.JSONName # <<>> /\ field.JSONName \in DOMAIN data)
        val == IF named THEN data[field.Name] ELSE data[field.JSONName]
        maps(values, msg) ==
            LET objects == SelectSeq(values, HasSubData)
            IN  [i \in 1..Len(objects) |-> [msg |-> msg, data |-> objects[i].m]]
    IN  IF ~ok THEN <<>>
        ELSE IF field.Repeated
        THEN IF val.kind = "slice" /\ field.Typez = "MESSAGE_TYPE"
             THEN maps(val.items, field.MessageType)
             ELSE <<>>
        ELSE IF field.Map
        THEN IF val.kind # "map" \/ field.MessageType = "nil" THEN <<>>
             ELSE IF ValueFieldIndex(schema[field.MessageType].Fields) = 0 THEN <<>>
             ELSE LET fields == schema[field.MessageType].Fields
                      valueField == fields[ValueFieldIndex(fields)]
                      keys == RangeKeys(val.m, order)
                  IN  IF valueField.Typez = "MESSAGE_TYPE"
                         /\ valueField.MessageType # "nil"
                      THEN maps([i \in 1..Len(keys) |-> val.m[keys[i]]],
                                valueField.MessageType)
                      ELSE <<>>
        ELSE IF field.Typez = "MESSAGE_TYPE" /\ field.MessageType # "nil"
        THEN maps(<<val>>, field.MessageType)
        ELSE <<>>

\* an invocation of buildRequestInit: nothing to do on an empty object
BuildFrame(schema, msg, data, order) ==
    [msg |-> msg, data |-> data,
     calls |-> IF DOMAIN data = {} THEN <<>>
               ELSE Join([i \in 1..Len(schema[msg].Fields) |->
                             FieldCalls(schema, schema[msg].Fields[i], data, order)],
                         <<>>)]

\* the call of GenerateGo
EnterBuild ==
    /\ pc = "enter"
    /\ \E order \in KeyOrders :
          call' = [call EXCEPT
                      !.stack = <<BuildFrame(GoSchema, call.msg, call.data, order)>>,
                      !.made = 1]
    /\ pc' = "walk"
    /\ UNCHANGED <<in, mapping, propIdx, decomposed, usedFields, posMap, flags,
                   injectLeft, positionalArgs, script, err>>

\* the running invocation calls buildRequestInit on a nested object
Recurse ==
    /\ pc = "walk"
    /\ Len(call.stack) < MaxStack
    /\ LET top == call.stack[Len(call.stack)]
       IN  /\ Len(top.calls) > 0
           /\ \E order \in KeyOrders :
                 call' = [call EXCEPT
                             !.stack = Append([@ EXCEPT ![Len(@)].calls = Tail(top.calls)],
                                              BuildFrame(GoSchema, top.calls[1].msg,
                                                         top.calls[1].data, order)),
                             !.made = @ + 1]
    /\ pc' = pc
    /\ UNCHANGED <<in, mapping, propIdx, decomposed, usedFields, posMap, flags,
                   injectLeft, positionalArgs, script, err>>

\* the running invocation has no call left to make and returns its node
ReturnNode ==
    /\ pc = "walk"
    /\ Len(call.stack[Len(call.stack)].calls) = 0
    /\ call' = [call EXCEPT !.stack = SubSeq(@, 1, Len(@) - 1)]
    /\ pc' = IF Len(call.stack) = 1 THEN "built" ELSE pc
    /\ UNCHANGED <<in, mapping, propIdx, decomposed, usedFields, posMap, flags,
                   injectLeft, positionalArgs, script, err>>

BuildInputs == {c \in GoInputs : c.msg \in {"TestMsg", "Parent", "MapMsg"}}

InitBuild ==
    /\ Blank
    /\ in = NoInput
    /\ pc = "enter"
    /\ call \in UNION {{[op |-> "buildRequestInit", msg |-> c.msg, data |-> d,
                         protoPkg |-> c.protoPkg, stack |-> <<>>, made |-> 0] :
                            d \in DataOver(c.keys, c.values)} : c \in BuildInputs}

NextBuild == EnterBuild \/ Recurse \/ ReturnNode

SpecBuild == InitBuild /\ [][NextBuild]_vars

\* an invocation that can take a step does take it
SpecBuildFair == SpecBuild /\ WF_vars(NextBuild)

-----------------------------------------------------------------------------
(* Claims about the recursion of buildRequestInit. *)

\* the largest of some numbers, 0 when there is none
Largest(S) == IF S = {} THEN 0 ELSE CHOOSE x \in S : \A y \in S : y <= x

\* the nesting depth of a JSON value: the most objects on a way from the
\* value down to a leaf
RECURSIVE ObjectDepth(_)
ObjectDepth(val) ==
    CASE val.kind = "map" ->
            1 + Largest({ObjectDepth(val.m[k]) : k \in DOMAIN val.m})
      [] val.kind = "slice" ->
            Largest({ObjectDepth(val.items[i]) : i \in 1..Len(val.items)})
      [] OTHER -> 0

\* the message schema the walk is in
OnCyclicSchema == \E i \in 1..Len(call.stack) : call.stack[i].msg = "Parent"

\* the invocations that have not returned are never more than the JSON
\* object is deep, and each was called on an object nested in its caller's
ConsumesNesting ==
    (call.op = "buildRequestInit" /\ pc \in {"walk", "built"}) =>
        /\ Len(call.stack) <= ObjectDepth(GoMap(call.data))
        /\ \A i \in 2..Len(call.stack) :
              ObjectDepth(GoMap(call.stack[i].data))
                 < ObjectDepth(GoMap(call.stack[i - 1].data))

\* C25: buildRequestInit returns for every finite JSON object, on a cyclic
\* message schema too: each recursive call is made on an object nested one
\* level deeper in the JSON value, so the invocations in progress are never
\* more than the nesting depth of the JSON object.
C25_RecursionFollowsTheJSON == <>(pc = "built") /\ []ConsumesNesting

\* C25 witness: on the self-referencing message Parent the builder is three
\* invocations deep in an object nested four deep
C25_Witness ==
    /\ call.op = "buildRequestInit"
    /\ pc = "walk"
    /\ call.msg = "Parent"
    /\ Len(call.stack) = 3
    /\ \A i \in 1..3 : call.stack[i].msg = "Parent"
    /\ ObjectDepth(GoMap(call.data)) = 4


-----------------------------------------------------------------------------
(* A further claim about decomposePathParams. *)

\* C27: whenever at least one candidate binding matches the request,
\* decomposePathParams returns the set of field paths that the selected
\* binding read as template inputs, also when that binding captures no
\* variable.
C27_UsedFieldsOfSelected ==
    (pc = "pathDone" /\ Matching # {}) =>
        usedFields = Candidate(Selected).usedFields


-----------------------------------------------------------------------------
(* Two invocations of ToJSONSchema over one message graph.  Each is first  *)
(* run alone; then both are run together, the scheduler switching between  *)
(* them at any step.  The invocation that is running is in call, as in a   *)
(* single run; the one that waits is in call.other.  A schemaWalker is     *)
(* made by each invocation for itself and nothing else is written to.      *)

\* the invocation that waits: where it is and what its walker holds
Waiting(position, root) ==
    [pc |-> position, root |-> root, refMap |-> EmptyMap, defs |-> EmptyMap,
     stack |-> <<>>, walks |-> [p \in Pointers |-> 0], result |-> Schema]

\* mutant: one reference table for all invocations
SharedTable(own, running) == running
\* w.refMap of the invocation that is switched to: its own
OwnTable(own, running) == own

\* the first invocation has returned and the second is run alone, or the
\* second has returned and both are started together
RunNext ==
    /\ call.phase = "alone"
    /\ pc = "done"
    /\ call' = [call EXCEPT
                   !.alone = Append(@, call.result),
                   !.root = IF Len(call.alone) = 0 THEN call.roots[2] ELSE call.roots[1],
                   !.refMap = EmptyMap,
                   !.defs = EmptyMap,
                   !.stack = <<>>,
                   !.walks = [p \in Pointers |-> 0],
                   !.result = Schema,
                   !.phase = IF Len(call.alone) = 0 THEN "alone" ELSE "together"]
    /\ pc' = "schema"
    /\ Stay

\* the scheduler lets the other invocation run
Yield ==
    /\ call.phase = "together"
    /\ call.other.pc # "done"
    /\ call' = [call EXCEPT
                   !.root = call.other.root,
                   !.refMap = OwnTable(call.other.refMap, call.refMap),
                   !.defs = call.other.defs,
                   !.stack = call.other.stack,
                   !.walks = call.other.walks,
                   !.result = call.other.result,
                   !.other = [pc |-> pc, root |-> call.root, refMap |-> call.refMap,
                              defs |-> call.defs, stack |-> call.stack,
                              walks |-> call.walks, result |-> call.result],
                   !.running = 3 - @,
                   !.mixed = @ \/ (pc = "walk" /\ call.other.pc = "walk")]
    /\ pc' = call.other.pc
    /\ Stay

\* the graphs and the two roots the invocations are made on
TwoGraphs ==
    {MessageGraph(r, a, b, sOtherMsg) :
        r \in SeqsUpTo({Ref("A"), Ref("R"), MapField(Ref("EB"))}, 1),
        a \in {<<Ref("B")>>, <<Ref("R")>>, <<Ref("A"), Required(Scalar("INT32_TYPE"))>>},
        b \in {<<>>, <<Ref("A")>>, <<MapField(Ref("ER"))>>}}
TwoRoots == {<<"R", "R">>, <<"R", "A">>, <<"A", "B">>}

InitTwo ==
    /\ Blank
    /\ in = NoInput
    /\ pc = "schema"
    /\ call \in {[op |-> "ToJSONSchema", graph |-> g, root |-> roots[1],
                  refMap |-> EmptyMap, defs |-> EmptyMap, stack |-> <<>>,
                  walks |-> [p \in Pointers |-> 0], result |-> Schema,
                  phase |-> "alone", roots |-> roots, alone |-> <<>>,
                  other |-> Waiting("schema", roots[2]), running |-> 1,
                  mixed |-> FALSE, given |-> g] :
                     g \in TwoGraphs, roots \in TwoRoots}

NextTwo == NextSchema \/ RunNext \/ Yield

SpecTwo == InitTwo /\ [][NextTwo]_vars

-----------------------------------------------------------------------------
(* Claims about interleaved invocations. *)

\* both invocations that were started together have returned
BothReturned ==
    call.op = "ToJSONSchema" /\ call.phase = "together" /\ pc = "done"
    /\ call.other.pc = "done"

\* what an invocation returned
Returned(i) == IF call.running = i THEN call.result ELSE call.other.result

-----------------------------------------------------------------------------
(* find-gcloud-command: the exploration loop of action.  The help text of  *)
(* gcloud and the answer of the advisor come from outside; a lookup fails  *)
(* or succeeds, a consultation fails or gives a suggestion.                *)

\* maxSteps of action
maxSteps == 10

sVersions == <<"v", "e", "r", "s", "i", "o", "n", "s">>
sFinalCommand == <<"g", "c", "l", "o", "u", "d", " ", "s", "e", "c", "r", "e", "t", "s", " ", "v", "e", "r", "s", "i", "o", "n", "s", " ", "l", "i", "s", "t">>

\* Suggestion, as decoded from the advisor's answer
Suggestion(decision, nextSubcommand, finalCommand) ==
    [Decision |-> decision, NextSubcommand |-> nextSubcommand,
     FinalCommand |-> finalCommand]
NoSuggestion == Suggestion("", <<>>, <<>>)

\* the answers of the advisor
Suggestions ==
    {Suggestion("DONE", n, f) : n \in {<<>>, sVersions}, f \in {<<>>, sFinalCommand}}
    \cup {Suggestion("NEXT", n, <<>>) : n \in {<<>>, sSecrets, sVersions}}
    \cup {Suggestion("NEXT", sSecrets, sFinalCommand), Suggestion("MAYBE", sSecrets, <<>>)}

fmtCmd(parts) == IF Len(parts) = 0 THEN <<>> ELSE Join(parts, <<" ">>)

\* the command printed on DONE
FinalOf(suggestion, currentCmd) ==
    IF suggestion.FinalCommand = <<>> /\ suggestion.NextSubcommand # <<>>
    THEN <<"g", "c", "l", "o", "u", "d", " ">> \o fmtCmd(currentCmd) \o <<" ">> \o suggestion.NextSubcommand
    ELSE IF suggestion.FinalCommand = <<>>
    THEN <<"g", "c", "l", "o", "u", "d", " ">> \o fmtCmd(currentCmd)
    ELSE suggestion.FinalCommand

\* mutant: the accepted subcommand is put in front of the path
AcceptFirst(currentCmd, subcommand) == <<subcommand>> \o currentCmd
\* currentCmd = append(currentCmd, suggestion.NextSubcommand)
Accept(currentCmd, subcommand) == Append(currentCmd, subcommand)

StayExplore == UNCHANGED <<in, mapping, propIdx, decomposed, usedFields, posMap, flags,
                           injectLeft, positionalArgs, script>>

\* action up to the loop: the API model, the method, the project and the
\* client
Setup ==
    /\ pc = "setup"
    /\ \/ /\ \E failure \in {"convert.ToSideKickAPI", "method not found",
                             "no project ID provided or detected",
                             "failed to create GenAI client"} : err' = failure
          /\ pc' = "returned"
       \/ /\ err' = err
          /\ pc' = "help"
    /\ call' = call
    /\ StayExplore

\* exp.GetHelp at the head of a step; a failed lookup leaves the loop
GetHelp ==
    /\ pc = "help"
    /\ call.i < maxSteps
    /\ \/ /\ call' = [call EXCEPT !.helps = @ + 1, !.helpFailed = TRUE]
          /\ err' = "max steps reached without finding exact command"
          /\ pc' = "returned"
       \/ /\ call' = [call EXCEPT !.helps = @ + 1]
          /\ err' = err
          /\ pc' = "advise"
    /\ StayExplore

\* adv.SuggestNextStep and the switch on the decision
SuggestNextStep ==
    /\ pc = "advise"
    /\ \/ /\ call' = [call EXCEPT !.consults = @ + 1, !.suggestion = NoSuggestion,
                                  !.advisorFailed = TRUE]
          /\ err' = "advisor failed"
          /\ pc' = "returned"
       \/ \E suggestion \in Suggestions :
             LET asked == [call EXCEPT !.consults = @ + 1, !.suggestion = suggestion]
             IN  CASE suggestion.Decision = "DONE" ->
                        /\ call' = [asked EXCEPT
                                       !.printed = Append(@, FinalOf(suggestion,
                                                                     call.currentCmd))]
                        /\ err' = err
                        /\ pc' = "returned"
                   [] suggestion.Decision = "NEXT" ->
                        IF suggestion.NextSubcommand = <<>>
                        THEN /\ call' = asked
                             /\ err' = "advisor said NEXT but provided no subcommand"
                             /\ pc' = "returned"
                        ELSE /\ call' = [asked EXCEPT
                                            !.currentCmd =
                                                Accept(@, suggestion.NextSubcommand),
                                            !.accepted =
                                                @ \o <<suggestion.NextSubcommand>>,
                                            !.i = @ + 1]
                             /\ IF call.i + 1 < maxSteps
                                THEN err' = err /\ pc' = "help"
                                ELSE /\ err' = "max steps reached without finding exact command"
                                     /\ pc' = "returned"
                   [] OTHER ->
                        /\ call' = asked
                        /\ err' = "unknown decision"
                        /\ pc' = "returned"
    /\ StayExplore

InitExplore ==
    /\ Blank
    /\ in = NoInput
    /\ pc = "setup"
    /\ call = [op |-> "action", i |-> 0, currentCmd |-> <<>>, accepted |-> <<>>,
               helps |-> 0, consults |-> 0, suggestion |-> NoSuggestion,
               printed |-> <<>>, helpFailed |-> FALSE, advisorFailed |-> FALSE]

NextExplore == Setup \/ GetHelp \/ SuggestNextStep

SpecExplore == InitExplore /\ [][NextExplore]_vars

\* every lookup and every consultation comes back
SpecExploreFair == SpecExplore /\ WF_vars(NextExplore)


-----------------------------------------------------------------------------
(* Claims about the exploration loop. *)

sMaxSteps == "max steps reached without finding exact command"

\* the words of a command line
WordsOf(text) == SelectSeq(Split(text, " "), LAMBDA w : w # <<>>)

\* the command the claim has printed on DONE: the advisor's final command,
\* else the current path and the next subcommand, else the current path
ClaimedFinal ==
    IF call.suggestion.FinalCommand # <<>> THEN WordsOf(call.suggestion.FinalCommand)
    ELSE IF call.suggestion.NextSubcommand # <<>>
    THEN <<sGcloud>> \o call.currentCmd \o <<call.suggestion.NextSubcommand>>
    ELSE <<sGcloud>> \o call.currentCmd

\* at most 10 lookups and 10 consultations; the path is the accepted
\* subcommands in the order suggested; nothing is printed before the loop
\* ends, and on DONE one command, the claimed one; a NEXT without
\* subcommand and an unknown decision end the loop with their error
ExploreSteps ==
    call.op = "action" =>
        /\ call.helps <= maxSteps
        /\ call.consults <= maxSteps
        /\ call.consults <= call.helps
        /\ call.currentCmd = call.accepted
        /\ Len(call.currentCmd) = call.i
        /\ Len(call.printed) <= 1
        /\ pc # "returned" => call.printed = <<>>
        /\ (pc # "returned" /\ call.consults > 0) =>
              (call.suggestion.Decision = "NEXT" /\ call.suggestion.NextSubcommand # <<>>)
        /\ (pc = "returned" /\ call.suggestion.Decision = "DONE") =>
              /\ err = "nil"
              /\ Len(call.printed) = 1
              /\ WordsOf(call.printed[1]) = ClaimedFinal
        /\ Len(call.printed) = 1 => call.suggestion.Decision = "DONE"
        /\ (/\ pc = "returned"
            /\ call.suggestion.Decision = "NEXT"
            /\ call.suggestion.NextSubcommand = <<>>) =>
              err = "advisor said NEXT but provided no subcommand"
        /\ (pc = "returned" /\ call.suggestion.Decision \notin {"DONE", "NEXT", ""}) =>
              err = "unknown decision"

\* C29: the exploration loop always ends, whatever the advisor answers: it
\* makes at most 10 help lookups and at most 10 consultations, ends on the
\* first DONE by printing one final command (the advisor's final command,
\* else the current path plus the next subcommand, else the current path),
\* ends with an error on a NEXT without subcommand or an unknown decision,
\* and after k accepted NEXT decisions the path is those k subcommands in
\* the order suggested.
C29_ExplorationEnds == <>(pc = "returned") /\ []ExploreSteps

\* C29 witness: after two accepted NEXT decisions the advisor says DONE
\* with a subcommand and no final command; path and subcommand are printed
C29_Witness ==
    /\ call.op = "action"
    /\ pc = "returned"
    /\ call.accepted = <<sSecrets, sVersions>>
    /\ call.currentCmd = <<sSecrets, sVersions>>
    /\ call.suggestion = Suggestion("DONE", sVersions, <<>>)
    /\ call.printed = <<<<"g", "c", "l", "o", "u", "d", " ", "s", "e", "c", "r", "e", "t", "s", " ", "v", "e", "r", "s", "i", "o", "n", "s", " ", "v", "e", "r", "s", "i", "o", "n", "s">>>>
    /\ call.helps = 3
    /\ call.consults = 3

\* C30: the error "max steps reached without finding exact command" is
\* returned only when all 10 steps were made and each ended with an
\* accepted NEXT; a help lookup or a consultation that fails is reported
\* as that step's own error.
C30_MaxStepsOnlyAfterTenSteps ==
    (call.op = "action" /\ pc = "returned") =>
        /\ err = sMaxSteps =>
              (call.i = maxSteps /\ Len(call.accepted) = maxSteps
               /\ call.consults = maxSteps)
        /\ call.helpFailed => err \notin {"nil", sMaxSteps}
        /\ call.advisorFailed => err = "advisor failed"

====
